---- MODULE Spec2Model ----
(***************************************************************************)
(* Model of the search-result acquisition pipeline of the MCP server:      *)
(*   app/mcp/search/cache.py          SearchCache (memory LRU + Redis)      *)
(*   app/mcp/search/google_client.py  GoogleSearchClient.search (retry)     *)
(*   app/mcp/processing/processor.py  SearchResultProcessor                 *)
(*   app/mcp/api/search.py            the routes that call process_query    *)
(*   app/mcp/config.py                settings                              *)
(***************************************************************************)
EXTENDS Integers, Sequences, FiniteSets, TLC

VARIABLES
    enabled,        \* SearchCache.enabled
    maxsize,        \* LRUCache(maxsize=settings.cache.max_cache_size)
    redis_client,   \* TRUE iff SearchCache.redis_client is not None
    memory_cache,   \* the LRUCache: sequence of [key, value], least recently used first
    redis,          \* the Redis database: key -> [data, expires]
    now,            \* wall clock, seconds
    recency,        \* history: keys in the order of their most recent access (oldest first)
    last,           \* history: the cache operation that completed last
    prev,           \* history: the cache operation completed before `last`
    written,        \* history: key held in memory -> when the set that wrote its value ran
    pc,             \* GoogleSearchClient.search: position in the retry loop
    script,         \* what the upstream API answers to the 1st, 2nd, ... request of this call
    calls,          \* number of upstream requests executed by this call
    attempt_number, \* tenacity retry_state.attempt_number
    sleeps,         \* backoff sleeps of this call, in order
    outcome,        \* what search() handed to its caller
    cancelled,      \* history: where the call was when the caller's overall timeout expired
    eval,           \* the pure function under evaluation: its arguments and its value
    ppc,            \* process_query: position of the request being served
    request,        \* process_query: which call is being served (0: none)
    payload,        \* the result dictionary the upstream API returns to this request
    found,          \* cached_search: what cache.get returned
    from_cache,     \* cached_search: the cached result was returned
    raw,            \* what search returned to process_query
    before,         \* history: both tiers when the request arrived
    writer,         \* history: key -> the call whose result was stored under it last
    prior,          \* history: the call served just before, if its result was stored (else 0)
    status,         \* HTTP status of the response to the last request (0: none yet)
    threads,        \* thread -> the handler it runs, its position and its locals
    race,           \* history: keys whose overlapping sets completed, and what get returned since
    peer,           \* the SearchCache of the process that is not running: its name and memory tier
    fresh,          \* history: key -> the set that completed last for it, unless cleared since
    body            \* body of the response a route is about to return or returned last

cacheVars == <<enabled, maxsize, redis_client, memory_cache, redis, now, recency, last, prev,
               written>>
clientVars == <<pc, script, calls, attempt_number, sleeps, outcome, cancelled>>
pureVars == <<eval>>
pipeVars == <<ppc, request, payload, found, from_cache, raw, before, writer, prior, status>>
concVars == <<threads, race>>
instanceVars == <<peer, fresh>>
replyVars == <<body>>
vars == <<enabled, maxsize, redis_client, memory_cache, redis, now, recency, last, prev,
          written,
          pc, script, calls, attempt_number, sleeps, outcome, cancelled, eval,
          ppc, request, payload, found, from_cache, raw, before, writer, prior, status,
          threads, race, peer, fresh, body>>

None == "None"

-----------------------------------------------------------------------------
(* Bounds and program constants *)

MaxCapacity == 2

\* attempt numbers for which the backoff delay is computed
MaxAttemptNumber == 8

ttl_seconds == 3600

max_retries == 3

-----------------------------------------------------------------------------
(* Inputs *)

\* keyword parameters of a search, in lexicographic order of their names
ParamNames == <<"language", "min_relevance_score", "num_results", "safe_search">>

\* (query, **params): params in the insertion order of the keyword arguments
\* a keyword argument value: its Python type and its str() form
IntValue(digits) == <<"int", digits>>
StrValue(text) == <<"str", text>>
NoneValue == <<"NoneType", "None">>

Requests ==
    { [query |-> "oil", params |-> << >>],
      [query |-> "oil", params |-> << <<"num_results", IntValue("5")>> >>],
      [query |-> "gas", params |-> << <<"num_results", IntValue("5")>>, <<"language", StrValue("en")>> >>] }

\* a keyword argument the caller did not pass
NotPassed == <<"missing", "">>

\* Optional[List[str]]: None, or a list of domains
NoList == [given |-> FALSE, domains |-> << >>]
List(domains) == [given |-> TRUE, domains |-> domains]

\* bounds of num_results in SearchQuery and in the Query of search_get
num_results_ge == 1
num_results_le == 50

\* requests to the search routes; POST bodies carry the optional fields (None when left
\* out), GET requests query and num_results only
SearchRequests ==
    << [route |-> "POST", query |-> "oil", num_results |-> 10, language |-> NoneValue,
        safe_search |-> NoneValue, min_relevance_score |-> "0.0",
        filter_domains |-> NoList, exclude_domains |-> NoList],
       [route |-> "POST", query |-> "oil", num_results |-> 10, language |-> NoneValue,
        safe_search |-> NoneValue, min_relevance_score |-> "0.3",
        filter_domains |-> List(<<<<"e", "x", "a", "m", "p", "l", "e", ".", "o", "r", "g">>>>),
        exclude_domains |-> List(<<<<"w", "w", "w", ".">>>>)],
       [route |-> "GET", query |-> "oil", num_results |-> 10],
       [route |-> "POST", query |-> "oil", num_results |-> 5, language |-> NoneValue,
        safe_search |-> NoneValue, min_relevance_score |-> "0.0",
        filter_domains |-> NoList, exclude_domains |-> NoList],
       [route |-> "POST", query |-> "oil", num_results |-> 0, language |-> NoneValue,
        safe_search |-> NoneValue, min_relevance_score |-> "0.0",
        filter_domains |-> NoList, exclude_domains |-> NoList],
       [route |-> "POST", query |-> "oil", num_results |-> 51, language |-> NoneValue,
        safe_search |-> NoneValue, min_relevance_score |-> "0.0",
        filter_domains |-> NoList, exclude_domains |-> NoList],
       [route |-> "GET", query |-> "oil", num_results |-> 0],
       [route |-> "GET", query |-> "oil", num_results |-> 51] >>

\* mutant: num_results is not constrained
unconstrained(h) == FALSE

\* num_results: int = Field(10, ge=1, le=50) and Query(10, ge=1, le=50): the request is
\* answered 422 and the route function is not called
validation_error(h) == ~(num_results_ge <= h.num_results /\ h.num_results <= num_results_le)

\* str(n) of an int
RECURSIVE decimal(_)
decimal(n) ==
    IF n < 0 THEN "-" \o decimal(-n)
    ELSE IF n < 10 THEN <<"0", "1", "2", "3", "4", "5", "6", "7", "8", "9">>[n + 1]
    ELSE decimal(n \div 10) \o decimal(n % 10)

\* the call of process_query a route makes: search passes every field of the body,
\* search_get passes query and num_results
process_query_call(h) ==
    IF h.route = "POST"
    THEN [query |-> h.query, num_results |-> IntValue(decimal(h.num_results)),
          language |-> h.language, safe_search |-> h.safe_search,
          min_relevance_score |-> h.min_relevance_score,
          filter_domains |-> h.filter_domains, exclude_domains |-> h.exclude_domains]
    ELSE [query |-> h.query, num_results |-> IntValue(decimal(h.num_results)),
          language |-> NotPassed, safe_search |-> NotPassed,
          min_relevance_score |-> "0.0",
          filter_domains |-> NoList, exclude_domains |-> NoList]

\* calls of process_query, one for each request that passes validation: the POST route
\* passes language and safe_search, None included; the GET route passes query and
\* num_results only
ProcessQueryCalls ==
    LET validated == SelectSeq(SearchRequests, LAMBDA h : ~validation_error(h))
    IN  [n \in 1..Len(validated) |-> process_query_call(validated[n])]

\* mutant: the relevance threshold is passed on to search with the other arguments
search_kwargs_with_threshold(r) ==
    SelectSeq(<< <<"num_results", r.num_results>>, <<"language", r.language>>,
                 <<"safe_search", r.safe_search>>,
                 <<"min_relevance_score", StrValue(r.min_relevance_score)>> >>,
              LAMBDA kv : kv[2] # NotPassed)

\* process_query, "self.search_client.search(query, num_results=num_results, **kwargs)":
\* the keyword arguments that search, and so the cache, is given
search_kwargs(r) ==
    SelectSeq(<< <<"num_results", r.num_results>>, <<"language", r.language>>,
                 <<"safe_search", r.safe_search>> >>,
              LAMBDA kv : kv[2] # NotPassed)

\* result dictionaries; "{}" is the empty dictionary
Payloads == {"{}", "r1"}

-----------------------------------------------------------------------------
(* SearchCache._generate_key *)

Rank(name) == CHOOSE i \in 1..Len(ParamNames) : ParamNames[i] = name

\* mutant: the parameters are joined in the order they were passed
sorted_as_passed(items) == items

\* sorted(params.items()): by parameter name
RECURSIVE sorted(_)
sorted(items) ==
    IF Len(items) <= 1 THEN items
    ELSE LET m == CHOOSE i \in 1..Len(items) :
                      \A j \in 1..Len(items) : Rank(items[i][1]) <= Rank(items[j][1])
             rest == [j \in 1..(Len(items) - 1) |-> IF j < m THEN items[j] ELSE items[j + 1]]
         IN  <<items[m]>> \o sorted(rest)

RECURSIVE join(_)
join(parts) ==
    IF Len(parts) = 0 THEN ""
    ELSE IF Len(parts) = 1 THEN parts[1]
    ELSE parts[1] \o "|" \o join(Tail(parts))

\* f"{v}" of a keyword argument value
format(value) == value[2]

key_parts(query, params) ==
    <<"query:" \o query>> \o
    [i \in 1..Len(params) |-> sorted(params)[i][1] \o ":" \o format(sorted(params)[i][2])]

\* hashlib.md5(...).hexdigest(): injective up to hash collisions
md5(s) == "md5(" \o s \o ")"

generate_key(query, params) == "search:" \o md5(join(key_parts(query, params)))

\* the keys of the requests of the model, each computed once
KeyTable ==
    [r \in Requests \cup {[query |-> ProcessQueryCalls[n].query,
                           params |-> search_kwargs(ProcessQueryCalls[n])] :
                              n \in DOMAIN ProcessQueryCalls}
                  \cup {[query |-> "", params |-> << >>]}
        |-> generate_key(r.query, r.params)]

\* key = self._generate_key(query, **params)
cache_key(query, params) == KeyTable[[query |-> query, params |-> params]]

Keys == {KeyTable[r] : r \in Requests}

-----------------------------------------------------------------------------
(* cachetools.LRUCache *)

lru_keys(c) == {c[i].key : i \in 1..Len(c)}

lru_contains(c, key) == key \in lru_keys(c)

lru_value(c, key) == c[CHOOSE i \in 1..Len(c) : c[i].key = key].value

lru_delitem(c, key) == SelectSeq(c, LAMBDA e : e.key # key)

\* mutant: a read that does not refresh the recency of the key (first in, first out)
lru_getitem_no_refresh(c, key) == c

\* __getitem__: the key becomes the most recently used
lru_getitem(c, key) ==
    Append(lru_delitem(c, key), [key |-> key, value |-> lru_value(c, key)])

\* mutant: a full cache refuses a new key instead of making room for it
lru_setitem_full_refuses(c, size, key, value) ==
    IF lru_contains(c, key)
    THEN Append(lru_delitem(c, key), [key |-> key, value |-> value])
    ELSE IF Len(c) >= size THEN c
         ELSE Append(c, [key |-> key, value |-> value])

\* mutant: a new key is stored without making room for it
lru_setitem_unbounded(c, size, key, value) ==
    Append(lru_delitem(c, key), [key |-> key, value |-> value])

\* __setitem__: a new key in a full cache pops the least recently used item first
lru_setitem(c, size, key, value) ==
    IF lru_contains(c, key)
    THEN Append(lru_delitem(c, key), [key |-> key, value |-> value])
    ELSE IF Len(c) >= size
         THEN Append(Tail(c), [key |-> key, value |-> value])
         ELSE Append(c, [key |-> key, value |-> value])

lru_clear(c) == << >>

-----------------------------------------------------------------------------
(* json and Redis *)

\* what redis.get answers for a key it does not hold
RedisNil == <<None>>

\* json.dumps: the serialized text of a result dictionary
dumps(value) == <<"json", value>>

\* json.loads
loads(data) == data[2]

\* truth value of the bytes redis.get returned (None and b"" are false)
truthy(data) == data # RedisNil /\ Len(data) > 0

\* redis.get: the stored bytes, or None for a missing or expired key
redis_get(db, key, t) ==
    IF key \in DOMAIN db /\ t < db[key].expires THEN db[key].data ELSE RedisNil

\* redis.setex(key, ttl, data)
redis_setex(db, key, ttl, data, t) ==
    [x \in DOMAIN db \cup {key} |->
        IF x = key THEN [data |-> data, expires |-> t + ttl] ELSE db[x]]

\* redis.delete(key)
redis_delete(db, key) == [x \in DOMAIN db \ {key} |-> db[x]]

\* redis.flushdb()
redis_flushdb(db) == [x \in {} |-> db[x]]

-----------------------------------------------------------------------------
(* SearchCache: what each handler computes *)

Outcome(c, db, ret, contact, raised) ==
    [memory_cache |-> c, redis |-> db, ret |-> ret, contact |-> contact, raised |-> raised]

\* get, "except Exception as e: logger.error(...)": the error is logged, get goes on to the miss
get_redis_error(c, db) == Outcome(c, db, None, "error", FALSE)

\* mutant: a failed Redis write undoes the write to the memory cache
set_redis_error_rollback(c, db) == Outcome(memory_cache, db, None, "error", FALSE)

\* set, "except Exception as e: logger.error(...)"
set_redis_error(c, db) == Outcome(c, db, None, "error", FALSE)

\* mutant: the Redis error of clear reaches the caller
clear_redis_error_raises(c, db) == Outcome(c, db, None, "error", TRUE)

\* clear, "except Exception as e: logger.error(...)" of either branch
clear_redis_error(c, db) == Outcome(c, db, None, "error", FALSE)

\* mutant: a Redis hit is returned without being cached in memory
promote_skipped(c, key, result) == c

\* get, "self.memory_cache[key] = result": a Redis hit is cached in memory too
promote(c, key, result) == lru_setitem(c, maxsize, key, result)

\* mutant: get does not look at self.enabled
get_result_enabled_unchecked(query, params, fails) ==
    LET key == cache_key(query, params) IN
    IF lru_contains(memory_cache, key)
    THEN Outcome(lru_getitem(memory_cache, key), redis,
                 lru_value(memory_cache, key), "none", FALSE)
    ELSE IF redis_client /\ ~fails /\ truthy(redis_get(redis, key, now))
    THEN Outcome(promote(memory_cache, key, loads(redis_get(redis, key, now))),
                 redis, loads(redis_get(redis, key, now)), "ok", FALSE)
    ELSE Outcome(memory_cache, redis, None, "none", FALSE)

\* SearchCache.get; fails: the Redis call of this invocation raises
get_result(query, params, fails) ==
    LET key == cache_key(query, params) IN
    IF ~enabled THEN Outcome(memory_cache, redis, None, "none", FALSE)
    ELSE IF lru_contains(memory_cache, key)
    THEN Outcome(lru_getitem(memory_cache, key), redis,
                 lru_value(memory_cache, key), "none", FALSE)
    ELSE IF redis_client
    THEN IF fails THEN get_redis_error(memory_cache, redis)
         ELSE LET cached_data == redis_get(redis, key, now) IN
              IF truthy(cached_data)
              THEN Outcome(promote(memory_cache, key, loads(cached_data)),
                           redis, loads(cached_data), "ok", FALSE)
              ELSE Outcome(memory_cache, redis, None, "ok", FALSE)
    ELSE Outcome(memory_cache, redis, None, "none", FALSE)

\* SearchCache.set
set_result(query, result, params, fails) ==
    LET key == cache_key(query, params)
        cached == lru_setitem(memory_cache, maxsize, key, result)
    IN  IF ~enabled THEN Outcome(memory_cache, redis, None, "none", FALSE)
        ELSE IF redis_client
        THEN IF fails THEN set_redis_error(cached, redis)
             ELSE Outcome(cached, redis_setex(redis, key, ttl_seconds, dumps(result), now),
                          None, "ok", FALSE)
        ELSE Outcome(cached, redis, None, "none", FALSE)

\* mutant: clear of one query empties both tiers
clear_result_everything(query, params, fails) ==
    IF ~enabled THEN Outcome(memory_cache, redis, None, "none", FALSE)
    ELSE IF redis_client
    THEN IF fails THEN clear_redis_error(lru_clear(memory_cache), redis)
         ELSE Outcome(lru_clear(memory_cache), redis_flushdb(redis), None, "ok", FALSE)
    ELSE Outcome(lru_clear(memory_cache), redis, None, "none", FALSE)

\* SearchCache.clear; query = None clears everything
clear_result(query, params, fails) ==
    IF ~enabled THEN Outcome(memory_cache, redis, None, "none", FALSE)
    ELSE IF query = None
    THEN IF redis_client
         THEN IF fails THEN clear_redis_error(lru_clear(memory_cache), redis)
              ELSE Outcome(lru_clear(memory_cache), redis_flushdb(redis), None, "ok", FALSE)
         ELSE Outcome(lru_clear(memory_cache), redis, None, "none", FALSE)
    ELSE LET key == cache_key(query, params)
             cleared == IF lru_contains(memory_cache, key)
                        THEN lru_delitem(memory_cache, key) ELSE memory_cache
         IN  IF redis_client
             THEN IF fails THEN clear_redis_error(cleared, redis)
                  ELSE Outcome(cleared, redis_delete(redis, key), None, "ok", FALSE)
             ELSE Outcome(cleared, redis, None, "none", FALSE)

-----------------------------------------------------------------------------
(* SearchCache: state machine *)

\* which tier a get was answered from
Tier(l) ==
    IF l.op = "get" /\ l.ret # None
    THEN (IF l.contact = "none" THEN "memory" ELSE "redis")
    ELSE "none"

Brief(l) == [op |-> l.op, key |-> l.key, arg |-> l.arg, tier |-> Tier(l)]

\* the keys still cached, in the order of their most recent access
Touch(r, key, accessed, kept) ==
    SelectSeq(IF accessed THEN Append(SelectSeq(r, LAMBDA k : k # key), key) ELSE r,
              LAMBDA k : k \in kept)

\* whether the handler reaches its Redis call in this state
ContactsRedis(op, query, params) ==
    /\ enabled
    /\ redis_client
    /\ op = "get" => ~lru_contains(memory_cache, cache_key(query, params))

Record(op, key, arg, o) ==
    [op |-> op, key |-> key, arg |-> arg, ret |-> o.ret,
     contact |-> o.contact, raised |-> o.raised,
     evicted |-> lru_keys(memory_cache) \ (lru_keys(o.memory_cache) \cup {key})]

\* when the values in memory were written: a set writes at the present time, a value
\* promoted from Redis was written ttl_seconds before its expiry
Written(op, key, o) ==
    [k \in lru_keys(o.memory_cache) |->
        IF k = key /\ op = "set" THEN now
        ELSE IF k \in DOMAIN written THEN written[k]
        ELSE redis[k].expires - ttl_seconds]

CacheInit ==
    /\ enabled \in BOOLEAN
    /\ maxsize \in 1..MaxCapacity
    /\ redis_client \in BOOLEAN
    /\ memory_cache = << >>
    /\ redis = [x \in {} |-> x]
    /\ now = 0
    /\ recency = << >>
    /\ last = [op |-> "init", key |-> None, arg |-> None, ret |-> None,
               contact |-> "none", raised |-> FALSE, evicted |-> {}]
    /\ prev = Brief(last)
    /\ written = [x \in {} |-> x]

Apply(op, key, arg, o, accessed) ==
    /\ memory_cache' = o.memory_cache
    /\ redis' = o.redis
    /\ recency' = Touch(recency, key, accessed, lru_keys(o.memory_cache))
    /\ last' = Record(op, key, arg, o)
    /\ prev' = Brief(last)
    /\ written' = Written(op, key, o)
    /\ UNCHANGED <<enabled, maxsize, redis_client, now>>
    /\ UNCHANGED clientVars
    /\ UNCHANGED <<pureVars, instanceVars, replyVars, concVars>>
    /\ UNCHANGED pipeVars

get(query, params, fails) ==
    LET o == get_result(query, params, fails) IN
    Apply("get", cache_key(query, params), None, o, o.ret # None)

set(query, result, params, fails) ==
    Apply("set", cache_key(query, params), result,
          set_result(query, result, params, fails), enabled)

clear(query, params, fails) ==
    Apply("clear", IF query = None THEN None ELSE cache_key(query, params), None,
          clear_result(query, params, fails), FALSE)

\* a Redis call may raise (connection refused, timeout) whenever it is made
Failures(op, query, params) ==
    IF ContactsRedis(op, query, params) THEN BOOLEAN ELSE {FALSE}

\* bound: how many times the clock advances
MaxTicks == 3

\* the step of the clock
tick == ttl_seconds \div 2

\* time passes while no handler runs
Tick ==
    /\ now < MaxTicks * tick
    /\ now' = now + tick
    /\ UNCHANGED <<enabled, maxsize, redis_client, memory_cache, redis, recency, last, prev,
                   written>>
    /\ UNCHANGED <<clientVars, pureVars, instanceVars, replyVars, pipeVars, concVars>>

\* the requests made while time passes
TimedRequests ==
    { [query |-> "oil", params |-> << >>],
      [query |-> "oil", params |-> << <<"num_results", IntValue("5")>> >>] }

TimedNext ==
    \/ \E r \in TimedRequests : \E fails \in Failures("get", r.query, r.params) :
           get(r.query, r.params, fails)
    \/ \E r \in TimedRequests, result \in Payloads :
           \E fails \in Failures("set", r.query, r.params) :
               set(r.query, result, r.params, fails)
    \/ \E r \in TimedRequests : \E fails \in Failures("clear", r.query, r.params) :
           clear(r.query, r.params, fails)
    \/ \E fails \in Failures("clear", None, << >>) : clear(None, << >>, fails)
    \/ Tick

CacheNext ==
    \/ \E r \in Requests : \E fails \in Failures("get", r.query, r.params) :
           get(r.query, r.params, fails)
    \/ \E r \in Requests, result \in Payloads :
           \E fails \in Failures("set", r.query, r.params) :
               set(r.query, result, r.params, fails)
    \/ \E r \in Requests : \E fails \in Failures("clear", r.query, r.params) :
           clear(r.query, r.params, fails)
    \/ \E fails \in Failures("clear", None, << >>) : clear(None, << >>, fails)

-----------------------------------------------------------------------------
(* two processes, each with its own SearchCache, connected to one Redis *)

Instances == {"A", "B"}

OtherInstance(i) == CHOOSE j \in Instances : j # i

\* the process whose memory tier is in memory_cache
Running == OtherInstance(peer.name)

NoEntries == [x \in {} |-> x]

\* process B caches, process A does or does not
InstanceInit ==
    /\ peer = [name |-> "B", enabled |-> TRUE, memory_cache |-> << >>, written |-> NoEntries]
    /\ fresh = NoEntries

\* the other process serves next, while no request is in progress: each process has its
\* own settings.cache.enabled and its own LRUCache, and the one Redis
Switch ==
    /\ ppc = "idle"
    /\ pc = "idle"
    /\ peer' = [name |-> Running, enabled |-> enabled, memory_cache |-> memory_cache,
                written |-> written]
    /\ enabled' = peer.enabled
    /\ memory_cache' = peer.memory_cache
    /\ written' = peer.written
    /\ UNCHANGED <<maxsize, redis_client, redis, now, recency, last, prev, fresh>>
    /\ UNCHANGED <<clientVars, pureVars, pipeVars, concVars, replyVars>>

\* the set of a key that completed last, by whom, and when its Redis entry expires
Remember(key, value) ==
    [k \in DOMAIN fresh \cup {key} |->
        IF k = key THEN [value |-> value, by |-> Running, expires |-> now + ttl_seconds]
        ELSE fresh[k]]

Forget(keys) == [k \in DOMAIN fresh \ keys |-> fresh[k]]

\* a handler of the running process returns outcome o
Completes(op, key, arg, o) ==
    /\ memory_cache' = o.memory_cache
    /\ redis' = o.redis
    /\ last' = Record(op, key, arg, o)
    /\ UNCHANGED <<enabled, maxsize, redis_client, now, recency, prev, written, peer>>
    /\ UNCHANGED <<clientVars, pureVars, pipeVars, concVars, replyVars>>

InstanceGet(r) ==
    /\ Completes("get", cache_key(r.query, r.params), None,
                 get_result(r.query, r.params, FALSE))
    /\ UNCHANGED fresh

InstanceSet(r, result) ==
    /\ Completes("set", cache_key(r.query, r.params), result,
                 set_result(r.query, result, r.params, FALSE))
    /\ fresh' = IF enabled THEN Remember(cache_key(r.query, r.params), result) ELSE fresh

InstanceClear(r) ==
    /\ Completes("clear", cache_key(r.query, r.params), None,
                 clear_result(r.query, r.params, FALSE))
    /\ fresh' = IF enabled THEN Forget({cache_key(r.query, r.params)}) ELSE fresh

InstanceClearAll ==
    /\ Completes("clear", None, None, clear_result(None, << >>, FALSE))
    /\ fresh' = IF enabled THEN NoEntries ELSE fresh

\* the key both processes set with either payload, and a key that fills their memory tiers
SharedRequest == [query |-> "oil", params |-> << >>]
LocalRequest == [query |-> "oil", params |-> << <<"num_results", IntValue("5")>> >>]

\* Redis is reachable from both processes: no call to it raises
InstancesNext ==
    \/ \E r \in TimedRequests : InstanceGet(r)
    \/ \E result \in Payloads : InstanceSet(SharedRequest, result)
    \/ InstanceSet(LocalRequest, "r1")
    \/ InstanceClear(SharedRequest)
    \/ InstanceClearAll
    \/ Switch
    \/ Tick

-----------------------------------------------------------------------------
(* GoogleSearchClient.search under @retry(stop_after_attempt, wait_exponential, reraise) *)

\* what the Custom Search API can answer to one request
Transient == {"timeout", "http_429"}
Fatal == {"http_403"}
Responses == {"ok"} \cup Transient \cup Fatal

\* the upstream answers that one call can consume, and one more
ScriptLen == max_retries + 1

NoOutcome == [kind |-> "none", value |-> <<None, 0>>, wrapped |-> FALSE]

\* the body of search: the n-th request returns its result or raises; both except
\* clauses log and re-raise the exception they caught
search_body(response, n) ==
    IF response = "ok"
    THEN [kind |-> "return", value |-> <<"result", n>>, wrapped |-> FALSE]
    ELSE [kind |-> "raise", value |-> <<response, n>>, wrapped |-> FALSE]

\* tenacity's default retry=retry_if_exception_type(): every Exception is retried
retry_if(exception) == TRUE

\* mutant: max_retries read as the number of retries before the last attempt
stop_after_attempt_early(n) == n >= max_retries - 1

\* mutant: no stop condition
stop_never(n) == FALSE

\* stop=stop_after_attempt(settings.rate_limit.max_retries)
stop_after_attempt(n) == n >= max_retries

wait_multiplier == 1
wait_min == 4
wait_max == 60

Min(a, b) == IF a <= b THEN a ELSE b
Max(a, b) == IF a >= b THEN a ELSE b

\* mutant: the floor of the delay is not applied
wait_exponential_no_floor(n) == Min(wait_multiplier * 2 ^ (n - 1), wait_max)

\* wait=wait_exponential(multiplier=1, min=4, max=60), after the n-th attempt
wait_exponential(n) == Max(wait_min, Min(wait_multiplier * 2 ^ (n - 1), wait_max))

\* mutant: reraise=False, tenacity raises RetryError around the last attempt
reraise_retry_error(attempt) ==
    [kind |-> "raise", value |-> <<"RetryError", attempt.value[2]>>, wrapped |-> TRUE]

\* reraise=True: the exception of the last attempt, not a RetryError around it
reraise(attempt) == [kind |-> "raise", value |-> attempt.value, wrapped |-> FALSE]

\* the timeout of the caller has not expired
NotCancelled == [at |-> "none", calls |-> 0, sleeps |-> 0]

ClientInit ==
    /\ pc = "idle"
    /\ script = << >>
    /\ calls = 0
    /\ attempt_number = 0
    /\ sleeps = << >>
    /\ outcome = NoOutcome
    /\ cancelled = NotCancelled

\* a caller invokes search; the upstream's behaviour during the call is fixed here
Call ==
    /\ pc = "idle"
    /\ script' \in [1..ScriptLen -> Responses]
    /\ pc' = "attempting"
    /\ calls' = 0
    /\ attempt_number' = 1
    /\ sleeps' = << >>
    /\ outcome' = NoOutcome
    /\ cancelled' = NotCancelled
    /\ UNCHANGED cacheVars
    /\ UNCHANGED <<pureVars, instanceVars, replyVars, concVars>>
    /\ UNCHANGED pipeVars

\* one attempt, and tenacity's decision after it
Attempt ==
    /\ pc = "attempting"
    /\ calls < ScriptLen
    /\ calls' = calls + 1
    /\ LET attempt == search_body(script[calls + 1], calls + 1) IN
       IF attempt.kind = "return"
       THEN pc' = "done" /\ outcome' = attempt
       ELSE IF ~retry_if(attempt.value)
       THEN pc' = "failed" /\ outcome' = attempt
       ELSE IF stop_after_attempt(attempt_number)
       THEN pc' = "failed" /\ outcome' = reraise(attempt)
       ELSE pc' = "sleeping" /\ outcome' = outcome
    /\ UNCHANGED <<script, attempt_number, sleeps, cancelled>>
    /\ UNCHANGED cacheVars
    /\ UNCHANGED <<pureVars, instanceVars, replyVars, concVars>>
    /\ UNCHANGED pipeVars

\* the backoff sleep between two attempts
Sleep ==
    /\ pc = "sleeping"
    /\ sleeps' = Append(sleeps, wait_exponential(attempt_number))
    /\ attempt_number' = attempt_number + 1
    /\ pc' = "attempting"
    /\ UNCHANGED <<script, calls, outcome, cancelled>>
    /\ UNCHANGED cacheVars
    /\ UNCHANGED <<pureVars, instanceVars, replyVars, concVars>>
    /\ UNCHANGED pipeVars

\* the caller has the result or the exception; the client is free for the next call
Return ==
    /\ pc \in {"done", "failed"}
    /\ pc' = "idle"
    /\ script' = << >>
    /\ calls' = 0
    /\ attempt_number' = 0
    /\ sleeps' = << >>
    /\ outcome' = NoOutcome
    /\ cancelled' = NotCancelled
    /\ UNCHANGED cacheVars
    /\ UNCHANGED <<pureVars, instanceVars, replyVars, concVars>>
    /\ UNCHANGED pipeVars

ClientNext == Call \/ Attempt \/ Sleep \/ Return

\* the overall timeout of the caller expires while the search is pending: search takes
\* no deadline and the route calls it synchronously, so the retry loop is not told
Timeout ==
    /\ pc \in {"attempting", "sleeping"}
    /\ cancelled = NotCancelled
    /\ cancelled' = [at |-> pc, calls |-> calls, sleeps |-> Len(sleeps)]
    /\ UNCHANGED <<pc, script, calls, attempt_number, sleeps, outcome>>
    /\ UNCHANGED <<cacheVars, pureVars, instanceVars, replyVars, concVars, pipeVars>>

TimeoutNext == ClientNext \/ Timeout

-----------------------------------------------------------------------------
(* Text of search results: a str is the sequence of its characters *)

UpperCase == <<"A", "B", "C", "D", "E", "F", "G", "H", "I", "J", "K", "L", "M",
               "N", "O", "P", "Q", "R", "S", "T", "U", "V", "W", "X", "Y", "Z">>
LowerCase == <<"a", "b", "c", "d", "e", "f", "g", "h", "i", "j", "k", "l", "m",
               "n", "o", "p", "q", "r", "s", "t", "u", "v", "w", "x", "y", "z">>
Digits == {"0", "1", "2", "3", "4", "5", "6", "7", "8", "9"}

Range(f) == {f[i] : i \in DOMAIN f}

\* mutant: texts are compared as they are written
lower_as_written(text) == text

\* str.lower()
lower(text) ==
    [i \in 1..Len(text) |->
        IF text[i] \in Range(UpperCase)
        THEN LowerCase[CHOOSE k \in DOMAIN UpperCase : UpperCase[k] = text[i]]
        ELSE text[i]]

\* the class \w of the re module
word_char(c) == c \in Range(UpperCase) \cup Range(LowerCase) \cup Digits \cup {"_"}

\* mutant: re.findall(r'\w*', text), which also yields the empty matches
RECURSIVE findall_word_star(_, _)
findall_word_star(text, run) ==
    IF text = << >> THEN (IF run = << >> THEN << << >> >> ELSE <<run, << >> >>)
    ELSE IF word_char(Head(text))
    THEN findall_word_star(Tail(text), Append(run, Head(text)))
    ELSE (IF run = << >> THEN << << >> >> ELSE <<run>>) \o findall_word_star(Tail(text), << >>)

\* re.findall(r'\w+', text): the maximal runs of word characters, left to right
RECURSIVE findall_word(_, _)
findall_word(text, run) ==
    IF text = << >> THEN (IF run = << >> THEN << >> ELSE <<run>>)
    ELSE IF word_char(Head(text)) THEN findall_word(Tail(text), Append(run, Head(text)))
    ELSE (IF run = << >> THEN << >> ELSE <<run>>) \o findall_word(Tail(text), << >>)

\* Python's "term in text" for two str
contains(text, term) ==
    \E i \in 0..(Len(text) - Len(term)) : SubSeq(text, i + 1, i + Len(term)) = term

\* item.get(name, ""): the field, or the default when the item has no such field
item_get(item, name, default) == IF name \in DOMAIN item THEN item[name] ELSE default

-----------------------------------------------------------------------------
(* SearchResultProcessor._calculate_relevance_score, in units of 0.05 *)

title_hit == 4
title_exact == 6
title_cap == 10
snippet_hit == 2
snippet_cap == 6
display_link_hit == 2
link_hit == 1
domain_cap == 4
score_cap == 20

\* mutant: a contribution is added without its cap
uncapped(limit, part) == part

\* min(0.5, title_score), min(0.3, snippet_score), min(0.2, domain_score)
capped(limit, part) == Min(limit, part)

\* mutant: no extra points for a title that is the term
no_exact_bonus(term, title) == 0

\* "if term == title: title_score += 0.3"
exact_bonus(term, title) == IF term = title THEN title_exact ELSE 0

\* "for term in query_terms: if term in title: ..."
RECURSIVE title_score(_, _)
title_score(query_terms, title) ==
    IF query_terms = << >> THEN 0
    ELSE (IF contains(title, Head(query_terms))
          THEN title_hit + exact_bonus(Head(query_terms), title) ELSE 0)
         + title_score(Tail(query_terms), title)

\* "for term in query_terms: if term in snippet: ..."
RECURSIVE snippet_score(_, _)
snippet_score(query_terms, snippet) ==
    IF query_terms = << >> THEN 0
    ELSE (IF contains(snippet, Head(query_terms)) THEN snippet_hit ELSE 0)
         + snippet_score(Tail(query_terms), snippet)

\* "for term in query_terms: if term in display_link: ...; if term in link: ..."
RECURSIVE domain_score(_, _, _)
domain_score(query_terms, link, display_link) ==
    IF query_terms = << >> THEN 0
    ELSE (IF contains(display_link, Head(query_terms)) THEN display_link_hit ELSE 0)
         + (IF contains(link, Head(query_terms)) THEN link_hit ELSE 0)
         + domain_score(Tail(query_terms), link, display_link)

query_terms_of(query) == findall_word(lower(query), << >>)

\* the three amounts added to score, in the order they are added
contributions(item, query) ==
    LET query_terms == query_terms_of(query)
        title == lower(item_get(item, "title", << >>))
        snippet == lower(item_get(item, "snippet", << >>))
        link == lower(item_get(item, "link", << >>))
        display_link == lower(item_get(item, "displayLink", << >>))
    IN  << capped(title_cap, title_score(query_terms, title)),
           capped(snippet_cap, snippet_score(query_terms, snippet)),
           capped(domain_cap, domain_score(query_terms, link, display_link)) >>

\* "return min(1.0, score)"
calculate_relevance_score(item, query) ==
    LET added == contributions(item, query)
    IN  Min(score_cap, added[1] + added[2] + added[3])

-----------------------------------------------------------------------------
(* Python floats: IEEE 754 binary64, round to nearest, ties to even.  A positive float *)
(* is <<a, b, c, e>>: the 53-bit significand a * 2^40 + b * 2^20 + c times 2^e; 0.0 is   *)
(* <<0, 0, 0, 0>>.  Only the operations the scorer uses: +, <, min on non-negative floats *)

Limb == 2 ^ 20
TopLimb == 2 ^ 13

Float_0_0 == <<0, 0, 0, 0>>
Float_0_05 == <<6553, 629145, 629146, -57>>
Float_0_1 == <<6553, 629145, 629146, -56>>
Float_0_2 == <<6553, 629145, 629146, -55>>
Float_0_3 == <<4915, 209715, 209715, -54>>
Float_0_5 == <<4096, 0, 0, -53>>
Float_1_0 == <<4096, 0, 0, -52>>

\* the float a decimal literal k/20 denotes, k = 0..20, at index k + 1
DecimalFloat ==
    << <<0, 0, 0, 0>>,
       <<6553, 629145, 629146, -57>>,
       <<6553, 629145, 629146, -56>>,
       <<4915, 209715, 209715, -55>>,
       <<6553, 629145, 629146, -55>>,
       <<4096, 0, 0, -54>>,
       <<4915, 209715, 209715, -54>>,
       <<5734, 419430, 419430, -54>>,
       <<6553, 629145, 629146, -54>>,
       <<7372, 838860, 838861, -54>>,
       <<4096, 0, 0, -53>>,
       <<4505, 629145, 629146, -53>>,
       <<4915, 209715, 209715, -53>>,
       <<5324, 838860, 838861, -53>>,
       <<5734, 419430, 419430, -53>>,
       <<6144, 0, 0, -53>>,
       <<6553, 629145, 629146, -53>>,
       <<6963, 209715, 209715, -53>>,
       <<7372, 838860, 838861, -53>>,
       <<7782, 419430, 419430, -53>>,
       <<4096, 0, 0, -52>> >>

\* carries of a significand whose limbs have overflowed
carry(m) ==
    LET b1 == m[2] + m[3] \div Limb
    IN  <<m[1] + b1 \div Limb, b1 % Limb, m[3] % Limb>>

\* significand * 2^k
shifted_left(m, k) == carry(<<m[1] * 2 ^ k, m[2] * 2 ^ k, m[3] * 2 ^ k>>)

\* significand \div 2^r
shifted_right(m, r) ==
    LET b1 == (m[1] % 2 ^ r) * Limb + m[2]
        c1 == (b1 % 2 ^ r) * Limb + m[3]
    IN  <<m[1] \div 2 ^ r, b1 \div 2 ^ r, c1 \div 2 ^ r>>

\* how many bits a significand has beyond 53
excess_bits(m) == CHOOSE r \in 0..8 : m[1] \div 2 ^ r < TopLimb /\ (r > 0 => m[1] \div 2 ^ (r - 1) >= TopLimb)

\* an exact sum m * 2^e rounded to 53 bits, to nearest, ties to even
rounded(m, e) ==
    LET r == excess_bits(m)
        q == shifted_right(m, r)
        rest == m[3] % 2 ^ r
        half == IF r = 0 THEN 1 ELSE 2 ^ (r - 1)
        up == r > 0 /\ (rest > half \/ (rest = half /\ q[3] % 2 = 1))
        q1 == IF up THEN carry(<<q[1], q[2], q[3] + 1>>) ELSE q
    IN  IF q1[1] >= TopLimb
        THEN <<q1[1] \div 2, (q1[1] % 2) * (Limb \div 2), 0, e + r + 1>>
        ELSE <<q1[1], q1[2], q1[3], e + r>>

\* x + y
float_add(x, y) ==
    IF x = Float_0_0 THEN y
    ELSE IF y = Float_0_0 THEN x
    ELSE LET e == Min(x[4], y[4])
             mx == shifted_left(<<x[1], x[2], x[3]>>, x[4] - e)
             my == shifted_left(<<y[1], y[2], y[3]>>, y[4] - e)
         IN  rounded(carry(<<mx[1] + my[1], mx[2] + my[2], mx[3] + my[3]>>), e)

\* x < y
float_less(x, y) ==
    IF y = Float_0_0 THEN FALSE
    ELSE IF x = Float_0_0 THEN TRUE
    ELSE \/ x[4] < y[4]
         \/ x[4] = y[4] /\ x[1] < y[1]
         \/ x[4] = y[4] /\ x[1] = y[1] /\ x[2] < y[2]
         \/ x[4] = y[4] /\ x[1] = y[1] /\ x[2] = y[2] /\ x[3] < y[3]

\* min(x, y)
float_min(x, y) == IF float_less(y, x) THEN y ELSE x

-----------------------------------------------------------------------------
(* SearchResultProcessor._calculate_relevance_score, as the floats Python computes *)

RECURSIVE float_title_score(_, _, _)
float_title_score(title_score_so_far, query_terms, title) ==
    IF query_terms = << >> THEN title_score_so_far
    ELSE LET term == Head(query_terms)
             hit_added == IF contains(title, term)
                          THEN float_add(title_score_so_far, Float_0_2) ELSE title_score_so_far
             bonus_added == IF contains(title, term) /\ term = title
                            THEN float_add(hit_added, Float_0_3) ELSE hit_added
         IN  float_title_score(bonus_added, Tail(query_terms), title)

RECURSIVE float_snippet_score(_, _, _)
float_snippet_score(snippet_score_so_far, query_terms, snippet) ==
    IF query_terms = << >> THEN snippet_score_so_far
    ELSE float_snippet_score(IF contains(snippet, Head(query_terms))
                             THEN float_add(snippet_score_so_far, Float_0_1)
                             ELSE snippet_score_so_far,
                             Tail(query_terms), snippet)

RECURSIVE float_domain_score(_, _, _, _)
float_domain_score(domain_score_so_far, query_terms, link, display_link) ==
    IF query_terms = << >> THEN domain_score_so_far
    ELSE LET term == Head(query_terms)
             display_added == IF contains(display_link, term)
                              THEN float_add(domain_score_so_far, Float_0_1)
                              ELSE domain_score_so_far
             link_added == IF contains(link, term)
                           THEN float_add(display_added, Float_0_05) ELSE display_added
         IN  float_domain_score(link_added, Tail(query_terms), link, display_link)

\* the float _calculate_relevance_score returns
relevance_score(item, query) ==
    LET query_terms == query_terms_of(query)
        title == lower(item_get(item, "title", << >>))
        snippet == lower(item_get(item, "snippet", << >>))
        link == lower(item_get(item, "link", << >>))
        display_link == lower(item_get(item, "displayLink", << >>))
        after_title == float_add(Float_0_0,
                           float_min(Float_0_5, float_title_score(Float_0_0, query_terms, title)))
        after_snippet == float_add(after_title,
                           float_min(Float_0_3, float_snippet_score(Float_0_0, query_terms, snippet)))
        after_domain == float_add(after_snippet,
                           float_min(Float_0_2,
                                     float_domain_score(Float_0_0, query_terms, link, display_link)))
    IN  float_min(Float_1_0, after_domain)

-----------------------------------------------------------------------------
(* SearchResultProcessor._process_raw_results and _process_item *)

\* truth value of an optional list: None and [] are false
list_truthy(l) == l.given /\ Len(l.domains) > 0

\* mutant: an allow-list is applied whenever it is not None
list_given(l) == l.given

\* "if filter_domains:"
has_filter(l) == list_truthy(l)

\* any(domain in item.get("displayLink", "") for domain in domains)
any_domain_in(domains, display_link) ==
    \E i \in 1..Len(domains) : contains(display_link, domains[i])

\* "if relevance_score < min_relevance_score: continue"
below_minimum(score, minimum) == float_less(score, minimum)

\* the part of a display link before its first ".", or all of it
RECURSIVE before_dot(_)
before_dot(text) ==
    IF text = << >> \/ Head(text) = "." THEN << >>
    ELSE <<Head(text)>> \o before_dot(Tail(text))

\* _process_item; position: where the item stood in the upstream payload
process_item(item, score, position) ==
    [title |-> item_get(item, "title", << >>),
     link |-> item_get(item, "link", << >>),
     displayLink |-> item_get(item, "displayLink", << >>),
     snippet |-> item_get(item, "snippet", << >>),
     relevanceScore |-> score,
     domain |-> before_dot(item_get(item, "displayLink", << >>)),
     position |-> position]

\* the loop over raw_results["items"], from the item at position on
RECURSIVE processed_items(_, _, _, _, _, _)
processed_items(items, position, query, filter_domains, exclude_domains, minimum) ==
    IF position > Len(items) THEN << >>
    ELSE LET item == items[position]
             score == relevance_score(item, query)
             display_link == item_get(item, "displayLink", << >>)
             skip == \/ below_minimum(score, minimum)
                     \/ has_filter(filter_domains)
                        /\ ~any_domain_in(filter_domains.domains, display_link)
                     \/ list_truthy(exclude_domains)
                        /\ any_domain_in(exclude_domains.domains, display_link)
             rest == processed_items(items, position + 1, query,
                                     filter_domains, exclude_domains, minimum)
         IN  IF skip THEN rest ELSE <<process_item(item, score, position)>> \o rest

\* list.sort(key=..., reverse=True) puts x before y
sorts_before(x, y) == float_less(y.relevanceScore, x.relevanceScore)

\* mutant: ascending sort, then reversed
sort_ascending_reversed(items) ==
    LET n == Len(items)
        place(i) == Cardinality({j \in 1..n : sorts_before(items[j], items[i])
                                              \/ (~sorts_before(items[i], items[j]) /\ j > i)}) + 1
    IN  [k \in 1..n |-> items[CHOOSE i \in 1..n : place(i) = k]]

\* processed_data["items"].sort(key=lambda x: x["relevanceScore"], reverse=True):
\* list.sort is stable, also with reverse=True
sort_by_score(items) ==
    LET n == Len(items)
        place(i) == Cardinality({j \in 1..n : sorts_before(items[j], items[i])
                                              \/ (~sorts_before(items[i], items[j]) /\ j < i)}) + 1
    IN  [k \in 1..n |-> items[CHOOSE i \in 1..n : place(i) = k]]

\* _process_raw_results: the items of processed_data
process_raw_results(raw_results, query, filter_domains, exclude_domains, minimum) ==
    IF "items" \notin DOMAIN raw_results THEN << >>
    ELSE sort_by_score(processed_items(raw_results.items, 1, query,
                                       filter_domains, exclude_domains, minimum))

-----------------------------------------------------------------------------
(* The pure functions, evaluated on the inputs below *)

\* (query, **params) given to _generate_key
KeyInputs ==
    { [query |-> "oil", params |-> << >>],
      [query |-> "gas", params |-> << >>],
      [query |-> "oil", params |-> << <<"language", StrValue("en")>> >>],
      [query |-> "oil|language:en", params |-> << >>],
      [query |-> "oil", params |-> << <<"num_results", IntValue("5")>> >>],
      [query |-> "oil", params |-> << <<"num_results", StrValue("5")>> >>],
      [query |-> "oil", params |-> << <<"num_results", IntValue("7")>> >>],
      [query |-> "oil", params |-> << <<"language", NoneValue>>, <<"num_results", IntValue("5")>> >>],
      [query |-> "oil", params |-> << <<"language", StrValue("en")>>, <<"num_results", IntValue("5")>>,
                                      <<"safe_search", StrValue("off")>> >>],
      [query |-> "gas", params |-> << <<"language", StrValue("en:gb")>>, <<"num_results", IntValue("5")>>,
                                      <<"safe_search", StrValue("off")>> >>] }

\* every order in which the keyword arguments of a call can be inserted
InsertionOrders(params) ==
    {[i \in 1..Len(params) |-> params[f[i]]] :
        f \in {g \in [1..Len(params) -> 1..Len(params)] : Range(g) = 1..Len(params)}}

\* the string that _generate_key digests
key_string(query, params) == join(key_parts(query, params))

\* the mapping **params denotes, whatever its insertion order
Mapping(params) == Range(params)

\* the worked example: query "oil spill" and the item
\*   title "Major Oil Spill Reported", snippet "An oil spill occurred near the coast",
\*   displayLink "news.example.com", link "https://news.example.com/oil-spill"
ExampleQuery == <<"o", "i", "l", " ", "s", "p", "i", "l", "l">>

ExampleItem ==
    [title |-> <<"M", "a", "j", "o", "r", " ", "O", "i", "l", " ", "S", "p", "i", "l",
                "l", " ", "R", "e", "p", "o", "r", "t", "e", "d">>,
     snippet |-> <<"A", "n", " ", "o", "i", "l", " ", "s", "p", "i", "l", "l", " ", "o",
                  "c", "c", "u", "r", "r", "e", "d", " ", "n", "e", "a", "r", " ", "t",
                  "h", "e", " ", "c", "o", "a", "s", "t">>,
     displayLink |-> <<"n", "e", "w", "s", ".", "e", "x", "a", "m", "p", "l", "e", ".",
                      "c", "o", "m">>,
     link |-> <<"h", "t", "t", "p", "s", ":", "/", "/", "n", "e", "w", "s", ".", "e",
               "x", "a", "m", "p", "l", "e", ".", "c", "o", "m", "/", "o", "i", "l",
               "-", "s", "p", "i", "l", "l">>]

\* query strings of process_query
Queries ==
    {ExampleQuery} \cup
    { <<"o", "i", "l">>,   \* "oil"
      <<"O", "I", "L">>,   \* "OIL"
      <<"O", "i", "l", " ", "s", "p", "i", "l", "l">>,   \* "Oil spill"
      <<"o", "i", "l", " ", "o", "i", "l", " ", "o", "i", "l", " ", "o", "i", "l">>,   \* "oil oil oil oil"
      <<"g", "a", "s", "-", "p", "r", "i", "c", "e", "!">>,   \* "gas-price!"
      << >> }             \* ""

Titles ==
    { <<"O", "i", "l">>,   \* "Oil"
      <<"O", "i", "l", " ", "S", "p", "i", "l", "l", " ", "n", "e", "w", "s">>,   \* "Oil Spill news"
      <<"W", "e", "a", "t", "h", "e", "r">>,
      << >> }              \* ""
Snippets ==
    { <<"o", "i", "l", " ", "a", "n", "d", " ", "g", "a", "s", " ", "p", "r", "i", "c", "e">>,   \* "oil and gas price"
      <<"S", "p", "i", "l", "l", " ", "r", "e", "p", "o", "r", "t">> }
Links ==
    { [link |-> <<"h", "t", "t", "p", "s", ":", "/", "/", "o", "i", "l", "p", "r", "i", "c", "e", ".", "c", "o", "m", "/", "g", "a", "s">>, displayLink |-> <<"o", "i", "l", "p", "r", "i", "c", "e", ".", "c", "o", "m">>],
      [link |-> <<"h", "t", "t", "p", "s", ":", "/", "/", "e", "x", "a", "m", "p", "l", "e", ".", "o", "r", "g", "/", "O", "i", "l">>, displayLink |-> <<"e", "x", "a", "m", "p", "l", "e", ".", "o", "r", "g">>] }

\* result items of the Custom Search API; a field can be missing
Items ==
    {[title |-> t, snippet |-> sn, link |-> l.link, displayLink |-> l.displayLink] :
        t \in Titles, sn \in Snippets, l \in Links}
    \cup {[snippet |-> sn, link |-> l.link, displayLink |-> l.displayLink] :
        sn \in Snippets, l \in Links}
    \cup {[title |-> t, link |-> l.link] : t \in Titles, l \in Links}
    \cup {[title |-> t] : t \in Titles}
    \cup {ExampleItem}

\* the query of the upstream payloads below
PayloadQuery == <<"o", "i", "l", " ", "s", "p", "i", "l", "l", " ", "g", "a", "s">>   \* "oil spill gas"

\* ItemA: title "Oil Spill Gas", snippet "oil spill gas", link "https://example.org/oil-gas", displayLink "example.org"; scores 0.9
ItemA ==
    [title |-> <<"O", "i", "l", " ", "S", "p", "i", "l", "l", " ", "G", "a", "s">>,
     snippet |-> <<"o", "i", "l", " ", "s", "p", "i", "l", "l", " ", "g", "a", "s">>,
     link |-> <<"h", "t", "t", "p", "s", ":", "/", "/", "e", "x", "a", "m", "p", "l",
                "e", ".", "o", "r", "g", "/", "o", "i", "l", "-", "g", "a", "s">>,
     displayLink |-> <<"e", "x", "a", "m", "p", "l", "e", ".", "o", "r", "g">>]

\* ItemB: title "Oil Spill", displayLink "www.example.org"; scores 0.4
ItemB ==
    [title |-> <<"O", "i", "l", " ", "S", "p", "i", "l", "l">>,
     displayLink |-> <<"w", "w", "w", ".", "e", "x", "a", "m", "p", "l", "e", ".", "o",
                       "r", "g">>]

\* ItemC: title "Oil Spill", snippet "oil and gas price", link "https://news.example.com/oil-spill", displayLink "news.example.com"; scores 0.7000000000000001
ItemC ==
    [title |-> <<"O", "i", "l", " ", "S", "p", "i", "l", "l">>,
     snippet |-> <<"o", "i", "l", " ", "a", "n", "d", " ", "g", "a", "s", " ", "p",
                   "r", "i", "c", "e">>,
     link |-> <<"h", "t", "t", "p", "s", ":", "/", "/", "n", "e", "w", "s", ".", "e",
                "x", "a", "m", "p", "l", "e", ".", "c", "o", "m", "/", "o", "i", "l",
                "-", "s", "p", "i", "l", "l">>,
     displayLink |-> <<"n", "e", "w", "s", ".", "e", "x", "a", "m", "p", "l", "e", ".",
                       "c", "o", "m">>]

\* ItemD: title "Oil Spill Gas", snippet "oil and gas price", link "https://example.org/oil-gas", displayLink "example.org"; scores 0.7999999999999999
ItemD ==
    [title |-> <<"O", "i", "l", " ", "S", "p", "i", "l", "l", " ", "G", "a", "s">>,
     snippet |-> <<"o", "i", "l", " ", "a", "n", "d", " ", "g", "a", "s", " ", "p",
                   "r", "i", "c", "e">>,
     link |-> <<"h", "t", "t", "p", "s", ":", "/", "/", "e", "x", "a", "m", "p", "l",
                "e", ".", "o", "r", "g", "/", "o", "i", "l", "-", "g", "a", "s">>,
     displayLink |-> <<"e", "x", "a", "m", "p", "l", "e", ".", "o", "r", "g">>]

\* ItemE: title "Gas spill", displayLink "news.example.com"; scores 0.4
ItemE ==
    [title |-> <<"G", "a", "s", " ", "s", "p", "i", "l", "l">>,
     displayLink |-> <<"n", "e", "w", "s", ".", "e", "x", "a", "m", "p", "l", "e", ".",
                       "c", "o", "m">>]

\* ItemF: link "https://weather.test/"; scores 0.0
ItemF ==
    [link |-> <<"h", "t", "t", "p", "s", ":", "/", "/", "w", "e", "a", "t", "h", "e",
                "r", ".", "t", "e", "s", "t", "/">>]

\* raw_results of the Custom Search API; the last one has no "items"
RawResults ==
    { [items |-> <<ItemA, ItemB, ItemC>>],
      [items |-> <<ItemB, ItemE, ItemD, ItemA>>],
      [items |-> <<ItemE, ItemF, ItemB, ItemE>>],
      [items |-> << >>],
      [kind |-> "customsearch#search"] }

\* filter_domains and exclude_domains of process_query
DomainLists ==
    { NoList,
      List(<< >>),
      List(<<<<"e", "x", "a", "m", "p", "l", "e", ".", "o", "r", "g">>>>),
      List(<<<<"n", "e", "w", "s", ".">>, <<"w", "e", "a", "t", "h", "e", "r">>>>) }

\* min_relevance_score of process_query, in units of 0.05
MinimumScores == {0, 10, 16}

\* no pure function is being evaluated
NoEval == [fn |-> "none", done |-> FALSE]

\* the call about to be made, with its arguments
PureInit ==
    eval \in UNION {{[fn |-> "_generate_key", done |-> FALSE, key_query |-> i.query, params |-> params] :
                       params \in InsertionOrders(i.params)} : i \in KeyInputs}
          \cup {[fn |-> "_calculate_relevance_score", done |-> FALSE, item |-> item, query |-> query] :
                  item \in Items, query \in Queries}
          \cup {[fn |-> "_process_raw_results", done |-> FALSE, raw_results |-> raw_results,
                  query |-> PayloadQuery, filter_domains |-> filter_domains,
                  exclude_domains |-> exclude_domains, min_relevance_score |-> minimum] :
                  raw_results \in RawResults, filter_domains \in DomainLists,
                  exclude_domains \in DomainLists, minimum \in MinimumScores}

\* cache._generate_key(query, **params)
EvalKey ==
    /\ eval.fn = "_generate_key" /\ ~eval.done
    /\ eval' = [fn |-> eval.fn, done |-> TRUE, key_query |-> eval.key_query, params |-> eval.params,
                digested |-> key_string(eval.key_query, eval.params),
                value |-> generate_key(eval.key_query, eval.params)]
    /\ UNCHANGED <<cacheVars, clientVars, pipeVars, concVars, instanceVars, replyVars>>

\* processor._calculate_relevance_score(item, query)
EvalScore ==
    /\ eval.fn = "_calculate_relevance_score" /\ ~eval.done
    /\ eval' = [fn |-> eval.fn, done |-> TRUE, item |-> eval.item, query |-> eval.query,
                value |-> calculate_relevance_score(eval.item, eval.query)]
    /\ UNCHANGED <<cacheVars, clientVars, pipeVars, concVars, instanceVars, replyVars>>

\* processor._process_raw_results(raw_results, query, filter_domains, exclude_domains,
\* min_relevance_score)
EvalProcess ==
    /\ eval.fn = "_process_raw_results" /\ ~eval.done
    /\ eval' = [fn |-> eval.fn, done |-> TRUE, raw_results |-> eval.raw_results,
                query |-> eval.query, filter_domains |-> eval.filter_domains,
                exclude_domains |-> eval.exclude_domains,
                min_relevance_score |-> eval.min_relevance_score,
                value |-> process_raw_results(eval.raw_results, eval.query,
                                              eval.filter_domains, eval.exclude_domains,
                                              DecimalFloat[eval.min_relevance_score + 1])]
    /\ UNCHANGED <<cacheVars, clientVars, pipeVars, concVars, instanceVars, replyVars>>

PureNext == EvalKey \/ EvalScore \/ EvalProcess

-----------------------------------------------------------------------------
(* SearchResultProcessor.process_query over cached_search(retry(search)) *)

\* truth value of a result dictionary: None and {} are false
dict_truthy(result) == result # None /\ result # "{}"

\* cached_search.wrapper, "if cached_result:"
use_cached(cached_result) == dict_truthy(cached_result)

\* what the upstream API answers during one request of the pipeline
PipelineScripts ==
    { <<"ok", "ok", "ok", "ok">>,
      <<"timeout", "ok", "ok", "ok">>,
      <<"timeout", "http_429", "http_403", "ok">> }

PipelineKeys ==
    {cache_key(ProcessQueryCalls[n].query, search_kwargs(ProcessQueryCalls[n])) :
        n \in DOMAIN ProcessQueryCalls}

\* the entries of both tiers
Tiers(c, db) == [memory |-> {<<c[i].key, c[i].value>> : i \in 1..Len(c)}, redis |-> db]

NoTiers == Tiers(<< >>, [x \in {} |-> x])

\* what a cache operation made by the wrapper leaves in the two tiers; the history of
\* single cache operations (recency, last, prev) is kept by the SearchCache actions
Tiered(op, key, o) ==
    /\ memory_cache' = o.memory_cache
    /\ redis' = o.redis
    /\ written' = Written(op, key, o)
    /\ UNCHANGED <<enabled, maxsize, redis_client, now, recency, last, prev>>

\* no response body yet, or none kept
NoBody == [kind |-> "none"]

\* the characters of a query string
characters(query) == IF query = "oil" THEN <<"o", "i", "l">> ELSE << >>

\* the float of a min_relevance_score literal
minimum_float(literal) == IF literal = "0.3" THEN DecimalFloat[7] ELSE DecimalFloat[1]

\* the raw results a payload stands for: {} has no "items"
raw_results_of(result) ==
    IF result = "r1" THEN [items |-> <<ItemB, ItemE, ItemD, ItemA>>] ELSE [x \in {} |-> x]

\* what _process_raw_results returns for each call and payload, computed once
ProcessedTable ==
    [n \in DOMAIN ProcessQueryCalls |->
        [result \in Payloads |->
            process_raw_results(raw_results_of(result),
                                characters(ProcessQueryCalls[n].query),
                                ProcessQueryCalls[n].filter_domains,
                                ProcessQueryCalls[n].exclude_domains,
                                minimum_float(ProcessQueryCalls[n].min_relevance_score))]]

\* mutant: the results are processed with the arguments of the call that stored them in
\* the cache
processed_results_as_stored(n, raw_results) ==
    LET r == ProcessQueryCalls[n]
        stored_by == writer[cache_key(r.query, search_kwargs(r))]
    IN  ProcessedTable[IF stored_by = 0 THEN n ELSE stored_by][raw_results]

\* self._process_raw_results(raw_results, query=query, filter_domains=filter_domains,
\* exclude_domains=exclude_domains, min_relevance_score=min_relevance_score)
processed_results(n, raw_results) == ProcessedTable[n][raw_results]

PipelineInit ==
    /\ body = NoBody
    /\ ppc = "idle"
    /\ request = 0
    /\ payload = None
    /\ found = None
    /\ from_cache = FALSE
    /\ raw = None
    /\ before = NoTiers
    /\ writer = [k \in PipelineKeys |-> 0]
    /\ prior = 0
    /\ status = 0

\* process_query calls search: the wrapper asks the cache, and on a miss calls the
\* retrying search; on a hit process_query goes on to _process_raw_results with the
\* cached raw results and the arguments of this call
Lookup(n, fails, upstream, result) ==
    /\ ppc = "idle"
    /\ pc = "idle"
    /\ LET r == ProcessQueryCalls[n]
           kwargs == search_kwargs(r)
           o == get_result(r.query, kwargs, fails)
       IN  /\ Tiered("get", cache_key(r.query, kwargs), o)
           /\ request' = n
           /\ before' = Tiers(memory_cache, redis)
           /\ found' = o.ret
           /\ IF use_cached(o.ret)
              THEN /\ from_cache' = TRUE
                   /\ raw' = o.ret
                   /\ body' = [kind |-> "results", items |-> processed_results(n, o.ret)]
                   /\ ppc' = "returned"
                   /\ payload' = None
                   /\ UNCHANGED clientVars
              ELSE /\ from_cache' = FALSE
                   /\ raw' = None
                   /\ body' = NoBody
                   /\ ppc' = "searching"
                   /\ payload' = result
                   /\ pc' = "attempting"
                   /\ script' = upstream
                   /\ calls' = 0
                   /\ attempt_number' = 1
                   /\ sleeps' = << >>
                   /\ outcome' = NoOutcome
                   /\ cancelled' = NotCancelled
    /\ status' = 0
    /\ UNCHANGED <<writer, prior>>
    /\ UNCHANGED <<pureVars, instanceVars, concVars>>

\* the search returned: the wrapper stores the result and returns it, and process_query
\* goes on to _process_raw_results with it
Store(fails) ==
    /\ ppc = "searching"
    /\ pc = "done"
    /\ LET r == ProcessQueryCalls[request]
           kwargs == search_kwargs(r)
           key == cache_key(r.query, kwargs)
       IN  /\ Tiered("set", key, set_result(r.query, payload, kwargs, fails))
           /\ writer' = IF enabled THEN [writer EXCEPT ![key] = request] ELSE writer
    /\ raw' = payload
    /\ body' = [kind |-> "results", items |-> processed_results(request, payload)]
    /\ ppc' = "returned"
    /\ UNCHANGED <<request, payload, found, from_cache, before, prior, status>>
    /\ UNCHANGED clientVars
    /\ UNCHANGED <<pureVars, instanceVars, concVars>>

\* the search raised: neither the wrapper nor process_query catches the exception
Propagate ==
    /\ ppc = "searching"
    /\ pc = "failed"
    /\ ppc' = "raised"
    /\ UNCHANGED <<request, payload, found, from_cache, raw, before, writer, prior, status>>
    /\ UNCHANGED <<cacheVars, clientVars, pureVars, instanceVars, replyVars, concVars>>

\* process_query has returned or raised: the route returns the result, or answers 500;
\* the next request can be served
Respond ==
    /\ ppc \in {"returned", "raised"}
    /\ prior' = IF ppc = "returned" /\ ~from_cache THEN request ELSE 0
    /\ status' = IF ppc = "returned" THEN 200 ELSE 500
    /\ body' = NoBody
    /\ ppc' = "idle"
    /\ request' = 0
    /\ payload' = None
    /\ found' = None
    /\ from_cache' = FALSE
    /\ raw' = None
    /\ before' = NoTiers
    /\ pc' = "idle"
    /\ script' = << >>
    /\ calls' = 0
    /\ attempt_number' = 0
    /\ sleeps' = << >>
    /\ outcome' = NoOutcome
    /\ cancelled' = NotCancelled
    /\ UNCHANGED writer
    /\ UNCHANGED <<cacheVars, pureVars, instanceVars, concVars>>

\* a request that fails validation is answered by the framework; search and search_get
\* do not run
Reject(h) ==
    /\ ppc = "idle"
    /\ pc = "idle"
    /\ validation_error(SearchRequests[h])
    /\ status' = 422
    /\ prior' = 0
    /\ UNCHANGED <<ppc, request, payload, found, from_cache, raw, before, writer>>
    /\ UNCHANGED <<cacheVars, clientVars, pureVars, instanceVars, replyVars, concVars>>

\* the queries the cache-clear endpoint is called with; None clears everything
ClearedQueries == {"oil", None}

\* truth value of an optional string: None and "" are false
str_truthy(text) == text # None /\ text # ""

\* "if request.query:" chooses the message
clear_cache_message(query) ==
    IF str_truthy(query) THEN <<"Cache cleared for query: ", query>> ELSE <<"All cache cleared">>

\* clear_cache: cache.clear(request.query), then the message
ClearCache(query, fails) ==
    /\ ppc = "idle"
    /\ pc = "idle"
    /\ Tiered("clear", IF query = None THEN None ELSE cache_key(query, << >>),
              clear_result(query, << >>, fails))
    /\ status' = 200
    /\ body' = [kind |-> "message", message |-> clear_cache_message(query)]
    /\ prior' = 0
    /\ UNCHANGED <<ppc, request, payload, found, from_cache, raw, before, writer>>
    /\ UNCHANGED <<clientVars, pureVars, instanceVars, concVars>>

\* searches whose upstream request succeeds at once, and cache clears
EndpointNext ==
    \/ \E n \in DOMAIN ProcessQueryCalls, result \in Payloads :
          \E fails \in Failures("get", ProcessQueryCalls[n].query,
                                search_kwargs(ProcessQueryCalls[n])) :
              Lookup(n, fails, <<"ok", "ok", "ok", "ok">>, result)
    \/ Attempt
    \/ \E fails \in Failures("set", None, << >>) : Store(fails)
    \/ Respond
    \/ \E query \in ClearedQueries :
          \E fails \in Failures("clear", None, << >>) : ClearCache(query, fails)

\* the calls served by the two processes: num_results 10 and num_results 5
ProcessesCalls == {1, 4}

\* two processes serve searches and cache clears in turn, also clears whose query is the
\* empty string; no Redis call fails and the upstream request succeeds at once
ProcessesNext ==
    \/ \E n \in ProcessesCalls : Lookup(n, FALSE, <<"ok", "ok", "ok", "ok">>, "r1")
    \/ Attempt
    \/ Store(FALSE)
    \/ Respond
    \/ \E query \in ClearedQueries \cup {""} : ClearCache(query, FALSE)
    \/ Switch

PipelineNext ==
    \/ \E n \in DOMAIN ProcessQueryCalls, upstream \in PipelineScripts, result \in Payloads :
          \E fails \in Failures("get", ProcessQueryCalls[n].query,
                                search_kwargs(ProcessQueryCalls[n])) :
              Lookup(n, fails, upstream, result)
    \/ Attempt
    \/ Sleep
    \/ \E fails \in Failures("set", None, << >>) : Store(fails)
    \/ Propagate
    \/ Respond
    \/ \E h \in DOMAIN SearchRequests : Reject(h)

-----------------------------------------------------------------------------
(* SearchCache and cached_search.wrapper run by concurrent threads; the threads
   interleave between the statements of cache.py, each call into LRUCache or Redis is
   one step *)

Threads == {1, 2}

\* the key the threads contend for, and a second key whose set can evict the first
ContendedKey == cache_key("oil", << >>)
EvictingKey == cache_key("oil", << <<"num_results", IntValue("5")>> >>)

ConcurrentKeys == {ContendedKey, EvictingKey}

\* the calls the threads make when they race for a key: get, set and the cached search
\* of the contended key, and a set of the other key
RaceCalls ==
    {[op |-> op, key |-> ContendedKey, value |-> None] : op \in {"get", "search"}}
    \cup {[op |-> "set", key |-> ContendedKey, value |-> value] : value \in Payloads}
    \cup {[op |-> "set", key |-> EvictingKey, value |-> "{}"]}

\* the calls the threads make when the cache is cleared: each key is set to a payload
\* of its own
ClearCalls ==
    {[op |-> op, key |-> ContendedKey, value |-> None] : op \in {"get", "clear"}}
    \cup {[op |-> "set", key |-> ContendedKey, value |-> "r1"],
          [op |-> "set", key |-> EvictingKey, value |-> "{}"],
          [op |-> "clear", key |-> None, value |-> None]}

\* a thread that runs no handler
Idle ==
    [op |-> "none", phase |-> "none", key |-> None, arg |-> None, pc |-> "idle",
     result |-> None, ret |-> None, raised |-> FALSE, called |-> FALSE, raced |-> FALSE,
     overlapped |-> FALSE, mixed |-> FALSE]

NoRace == [settled |-> FALSE, seen |-> {}]

ConcurrentInit ==
    /\ threads = [t \in Threads |-> Idle]
    /\ race = NoRace

\* the other thread
Other(t) == CHOOSE u \in Threads : u # t

\* a write to the memory tier or to Redis made by a step of a thread
Shared(c, db) ==
    /\ memory_cache' = c
    /\ redis' = db
    /\ written' = [k \in lru_keys(c) |-> IF k \in DOMAIN written THEN written[k] ELSE now]
    /\ UNCHANGED <<enabled, maxsize, redis_client, now, recency, last, prev>>
    /\ UNCHANGED <<clientVars, pureVars, instanceVars, replyVars, pipeVars>>

\* overlapped: the set ran while the other thread ran a set of the same key; mixed: the
\* handler ran while the other thread ran a clear, or the clear ran while the other
\* thread ran get, set or the cached search

\* thread t is inside set (its own or the wrapper's) for the key
Setting(th, key) == th.phase = "set" /\ th.key = key /\ th.pc \in {"store", "redis"}

\* thread t is inside the wrapper for the key, has missed and has not stored a result
Missed(th, key) == th.op = "search" /\ th.key = key /\ th.pc \in {"upstream", "store"}

\* the handler of thread t returns value
Returned(th, value) == [th EXCEPT !.pc = "done", !.ret = value]

\* the handler of thread t raises
Raised(th) == [th EXCEPT !.pc = "done", !.raised = TRUE]

\* history of the gets that follow two overlapping sets of the contended key: a get that
\* returns a payload after both sets completed is recorded; a set, a cached search or a
\* clear of the key that begins ends the recording
Observe(th, value) ==
    IF th.op = "get" /\ th.key = ContendedKey /\ value # None /\ race.settled
    THEN [race EXCEPT !.seen = @ \cup {value}]
    ELSE race

\* SearchCache.get returns value to its caller: to the caller of get, or to the wrapper,
\* which returns a cached result that is true and calls the search function otherwise
GetReturns(t, value) ==
    LET th == threads[t] IN
    /\ race' = Observe(th, value)
    /\ IF th.op = "get" \/ use_cached(value)
       THEN threads' = [threads EXCEPT ![t] = Returned(th, value)]
       ELSE IF Missed(threads[Other(t)], th.key)
            THEN threads' = [u \in Threads |->
                               IF u = t
                               THEN [th EXCEPT !.pc = "upstream", !.phase = "call",
                                               !.raced = TRUE]
                               ELSE [threads[u] EXCEPT !.raced = TRUE]]
            ELSE threads' = [threads EXCEPT ![t] =
                               [th EXCEPT !.pc = "upstream", !.phase = "call"]]

\* a thread calls get, set, clear or the cached search; "if not self.enabled: return"
Begin(t, op, key, value) ==
    LET th == threads[t]
        phase == IF op = "search" THEN "get" ELSE op
        first == IF op \in {"get", "search"} THEN "check"
                 ELSE IF op = "set" THEN "store"
                 ELSE IF key = None THEN "purge" ELSE "check"
        overlaps == op = "set" /\ Setting(threads[Other(t)], key)
        mixes == /\ threads[Other(t)].pc \notin {"idle", "done"}
                 /\ (op = "clear") # (threads[Other(t)].op = "clear")
        started == [Idle EXCEPT !.op = op, !.phase = phase, !.key = key, !.arg = value,
                                !.pc = first, !.overlapped = overlaps, !.mixed = mixes]
    IN  /\ th.pc \in {"idle", "done"}
        /\ IF ~enabled
           THEN /\ threads' = [threads EXCEPT ![t] =
                                 IF op = "search"
                                 THEN [started EXCEPT !.pc = "upstream", !.phase = "call"]
                                 ELSE Returned(started, None)]
                /\ UNCHANGED race
           ELSE /\ threads' = [u \in Threads |->
                                 IF u = t THEN started
                                 ELSE [threads[u] EXCEPT
                                         !.overlapped = @ \/ overlaps, !.mixed = @ \/ mixes]]
                /\ race' = IF op \in {"set", "search", "clear"} /\ key \in {ContendedKey, None}
                           THEN NoRace
                           ELSE race
        /\ UNCHANGED <<cacheVars, clientVars, pureVars, instanceVars, replyVars, pipeVars>>

\* get, clear: "if key in self.memory_cache:"
Check(t) ==
    LET th == threads[t]
        present == lru_contains(memory_cache, th.key)
    IN  /\ th.pc = "check"
        /\ IF present
           THEN /\ threads' = [threads EXCEPT ![t] =
                                 [th EXCEPT !.pc = IF th.phase = "get" THEN "read"
                                                   ELSE "delete"]]
                /\ UNCHANGED race
           ELSE IF redis_client
           THEN /\ threads' = [threads EXCEPT ![t] = [th EXCEPT !.pc = "redis"]]
                /\ UNCHANGED race
           ELSE IF th.phase = "get"
           THEN GetReturns(t, None)
           ELSE /\ threads' = [threads EXCEPT ![t] = Returned(th, None)]
                /\ UNCHANGED race
        /\ UNCHANGED <<cacheVars, clientVars, pureVars, instanceVars, replyVars, pipeVars>>

\* get, "return self.memory_cache[key]": LRUCache.__getitem__ raises KeyError for a key
\* it does not hold
Read(t) ==
    LET th == threads[t] IN
    /\ th.pc = "read"
    /\ IF lru_contains(memory_cache, th.key)
       THEN /\ GetReturns(t, lru_value(memory_cache, th.key))
            /\ Shared(lru_getitem(memory_cache, th.key), redis)
       ELSE /\ threads' = [threads EXCEPT ![t] = Raised(th)]
            /\ UNCHANGED race
            /\ UNCHANGED <<cacheVars, clientVars, pureVars, instanceVars, replyVars, pipeVars>>

\* get, "cached_data = self.redis_client.get(key)" within try/except
RedisGet(t, fails) ==
    LET th == threads[t]
        cached_data == redis_get(redis, th.key, now)
    IN  /\ th.pc = "redis"
        /\ th.phase = "get"
        /\ IF ~fails /\ truthy(cached_data)
           THEN /\ threads' = [threads EXCEPT ![t] =
                                 [th EXCEPT !.pc = "promote", !.result = loads(cached_data)]]
                /\ UNCHANGED race
           ELSE GetReturns(t, None)
        /\ UNCHANGED <<cacheVars, clientVars, pureVars, instanceVars, replyVars, pipeVars>>

\* get, "self.memory_cache[key] = result; return result"
Promote(t) ==
    LET th == threads[t] IN
    /\ th.pc = "promote"
    /\ Shared(promote(memory_cache, th.key, th.result), redis)
    /\ GetReturns(t, th.result)

\* wrapper, "result = func(self, query, *args, **kwargs)": the search returns a result
\* or raises
CallSearch(t, answer) ==
    LET th == threads[t] IN
    /\ th.pc = "upstream"
    /\ threads' = [threads EXCEPT ![t] =
                     IF answer = None THEN Raised(th)
                     ELSE IF enabled
                     THEN [th EXCEPT !.pc = "store", !.phase = "set", !.arg = answer,
                                     !.called = TRUE]
                     ELSE Returned([th EXCEPT !.arg = answer, !.called = TRUE], answer)]
    /\ UNCHANGED race
    /\ UNCHANGED <<cacheVars, clientVars, pureVars, instanceVars, replyVars, pipeVars>>

\* mutant: the wrapper returns what cache.set returned
AfterSetNothing(th) == Returned(th, None)

\* what set, or the wrapper after its set, returns
AfterSet(th) == Returned(th, IF th.op = "search" THEN th.arg ELSE None)

\* two overlapping sets of the key have both completed
Settles(t, th) ==
    /\ th.overlapped
    /\ threads[Other(t)].overlapped
    /\ threads[Other(t)].phase = "set"
    /\ threads[Other(t)].key = th.key
    /\ threads[Other(t)].pc = "done"

Settled(t, th) ==
    IF Settles(t, th) /\ th.key = ContendedKey
    THEN [settled |-> TRUE, seen |-> {}]
    ELSE race

\* set, "self.memory_cache[key] = result"
StoreMemory(t) ==
    LET th == threads[t] IN
    /\ th.pc = "store"
    /\ Shared(lru_setitem(memory_cache, maxsize, th.key, th.arg), redis)
    /\ IF redis_client
       THEN /\ threads' = [threads EXCEPT ![t] = [th EXCEPT !.pc = "redis"]]
            /\ UNCHANGED race
       ELSE /\ threads' = [threads EXCEPT ![t] = AfterSet(th)]
            /\ race' = Settled(t, th)

\* set, "self.redis_client.setex(key, ttl_seconds, serialized)" within try/except
RedisSet(t, fails) ==
    LET th == threads[t] IN
    /\ th.pc = "redis"
    /\ th.phase = "set"
    /\ Shared(memory_cache,
              IF fails THEN redis
              ELSE redis_setex(redis, th.key, ttl_seconds, dumps(th.arg), now))
    /\ threads' = [threads EXCEPT ![t] = AfterSet(th)]
    /\ race' = Settled(t, th)

\* clear, "del self.memory_cache[key]": LRUCache.__delitem__ raises KeyError for a key
\* it does not hold
Delete(t) ==
    LET th == threads[t] IN
    /\ th.pc = "delete"
    /\ IF lru_contains(memory_cache, th.key)
       THEN /\ Shared(lru_delitem(memory_cache, th.key), redis)
            /\ threads' = [threads EXCEPT ![t] =
                             IF redis_client THEN [th EXCEPT !.pc = "redis"]
                             ELSE Returned(th, None)]
       ELSE /\ threads' = [threads EXCEPT ![t] = Raised(th)]
            /\ UNCHANGED <<cacheVars, clientVars, pureVars, instanceVars, replyVars, pipeVars>>
    /\ UNCHANGED race

\* clear, "self.memory_cache.clear()"
Purge(t) ==
    LET th == threads[t] IN
    /\ th.pc = "purge"
    /\ Shared(lru_clear(memory_cache), redis)
    /\ threads' = [threads EXCEPT ![t] =
                     IF redis_client THEN [th EXCEPT !.pc = "redis"]
                     ELSE Returned(th, None)]
    /\ UNCHANGED race

\* clear, "self.redis_client.delete(key)" or "self.redis_client.flushdb()" within
\* try/except
RedisClear(t, fails) ==
    LET th == threads[t] IN
    /\ th.pc = "redis"
    /\ th.phase = "clear"
    /\ Shared(memory_cache,
              IF fails THEN redis
              ELSE IF th.key = None THEN redis_flushdb(redis)
              ELSE redis_delete(redis, th.key))
    /\ threads' = [threads EXCEPT ![t] = Returned(th, None)]
    /\ UNCHANGED race

\* a step of get or set
AccessStep(t) ==
    \/ Check(t)
    \/ Read(t)
    \/ \E fails \in BOOLEAN : RedisGet(t, fails)
    \/ Promote(t)
    \/ StoreMemory(t)
    \/ \E fails \in BOOLEAN : RedisSet(t, fails)

RaceNext ==
    \E t \in Threads :
        \/ \E c \in RaceCalls : Begin(t, c.op, c.key, c.value)
        \/ AccessStep(t)
        \/ \E answer \in Payloads \cup {None} : CallSearch(t, answer)

ClearNext ==
    \E t \in Threads :
        \/ \E c \in ClearCalls : Begin(t, c.op, c.key, c.value)
        \/ AccessStep(t)
        \/ Delete(t)
        \/ Purge(t)
        \/ \E fails \in BOOLEAN : RedisClear(t, fails)

-----------------------------------------------------------------------------
(* Specifications *)

Init ==
    CacheInit /\ ClientInit /\ PipelineInit /\ ConcurrentInit /\ InstanceInit /\ eval = NoEval

InitPure ==
    CacheInit /\ ClientInit /\ PipelineInit /\ ConcurrentInit /\ InstanceInit /\ PureInit

CacheSpec == Init /\ [][CacheNext]_vars

ClientSpec == Init /\ [][ClientNext]_vars

PureSpec == InitPure /\ [][PureNext]_vars

PipelineSpec == Init /\ [][PipelineNext]_vars

TimedSpec == Init /\ [][TimedNext]_vars

RaceSpec == Init /\ [][RaceNext]_vars

ClearSpec == Init /\ [][ClearNext]_vars

TimeoutSpec == Init /\ [][TimeoutNext]_vars

EndpointSpec == Init /\ [][EndpointNext]_vars

InstancesSpec == Init /\ [][InstancesNext]_vars

ProcessesSpec == Init /\ [][ProcessesNext]_vars

\* an upstream request returns or fails in finite time, and a sleep ends
ClientLiveSpec == Init /\ [][ClientNext]_vars /\ WF_vars(Attempt) /\ WF_vars(Sleep)

-----------------------------------------------------------------------------
(* Properties of SearchCache *)

\* C1: with caching enabled and a capacity of at least one entry, set(k, v)
\* immediately followed by get(k) returns v, whether Redis is absent, reachable
\* or failing on either call.
C1_SetThenGetReturnsValue ==
    (enabled /\ prev.op = "set" /\ last.op = "get" /\ last.key = prev.key)
        => (last.ret = prev.arg /\ ~last.raised)

\* set(k, v) whose Redis write did not happen, then get(k) = v
C1_Witness ==
    /\ enabled /\ redis_client
    /\ prev.op = "set" /\ last.op = "get" /\ last.key = prev.key
    /\ last.ret = prev.arg
    /\ last.key \notin DOMAIN redis

\* C2: clear(k) immediately followed by get(k) returns None, whether or not
\* Redis was reachable while clear ran and while get runs.
C2_ClearThenGetAbsent ==
    (enabled /\ prev.op = "clear" /\ prev.key # None
        /\ last.op = "get" /\ last.key = prev.key)
        => last.ret = None

\* C3: after clear(None) a get of any key returns None, for every earlier
\* sequence of operations and every availability of Redis.
C3_ClearAllThenGetAbsent ==
    (enabled /\ prev.op = "clear" /\ prev.key = None /\ last.op = "get")
        => last.ret = None

\* C4: no operation of SearchCache raises because Redis failed: a failed read
\* makes get a miss, and a failed write, delete or flush is ignored after the
\* memory cache has been written, emptied of the key, or emptied.
C4_RedisFailureNeverPropagates ==
    /\ ~last.raised
    /\ last.contact = "error" =>
          /\ last.op = "get" => last.ret = None
          /\ last.op = "set" =>
                /\ lru_contains(memory_cache, last.key)
                /\ lru_value(memory_cache, last.key) = last.arg
          /\ (last.op = "clear" /\ last.key # None) =>
                ~lru_contains(memory_cache, last.key)
          /\ (last.op = "clear" /\ last.key = None) => memory_cache = << >>

\* clear(None) after a set, with flushdb failing: Redis keeps its entries
C4_Witness ==
    /\ last.op = "clear" /\ last.key = None /\ last.contact = "error"
    /\ prev.op = "set"
    /\ DOMAIN redis # {}
    /\ memory_cache = << >>

\* C5: get(k) answers from the memory cache without contacting Redis when the
\* key is there; otherwise, with Redis configured, it asks Redis, and a Redis
\* hit is stored in the memory cache before it is returned, so that the get(k)
\* that follows is a memory hit that does not contact Redis.
C5_Step ==
    (enabled /\ last'.op = "get") =>
        LET key == last'.key
            hit == lru_contains(memory_cache, key)
        IN  /\ hit => /\ last'.contact = "none"
                      /\ last'.ret = lru_value(memory_cache, key)
                      /\ redis' = redis
            /\ (~hit /\ redis_client) => last'.contact # "none"
            /\ (~hit /\ last'.contact = "ok" /\ truthy(redis_get(redis, key, now))) =>
                  /\ last'.ret = loads(redis[key].data)
                  /\ lru_contains(memory_cache', key)
                  /\ lru_value(memory_cache', key) = last'.ret
            /\ (last.op = "get" /\ last.key = key /\ last.ret # None) =>
                  /\ last'.contact = "none"
                  /\ last'.ret = last.ret

\* C5, over every step: a get reads the memory cache first, then Redis, and
\* caches a Redis hit in memory, so the get that follows it is a memory hit.
C5_GetReadsThroughAndPromotes == [][C5_Step]_vars

\* a Redis hit for k, then get(k) answered from memory
C5_Witness ==
    /\ prev.op = "get" /\ prev.tier = "redis"
    /\ last.op = "get" /\ last.key = prev.key
    /\ last.contact = "none" /\ last.ret # None

\* C6: when set(k, v) returns, the memory cache holds v for k, also when the
\* Redis write failed; when Redis is configured and the write succeeded, Redis
\* holds the serialized v for k, expiring ttl_seconds later.
C6_SetWritesBothTiers ==
    (enabled /\ last.op = "set") =>
        /\ ~last.raised
        /\ lru_contains(memory_cache, last.key)
        /\ lru_value(memory_cache, last.key) = last.arg
        /\ redis_client => last.contact # "none"
        /\ (redis_client /\ last.contact = "ok") =>
              /\ last.key \in DOMAIN redis
              /\ redis[last.key] = [data |-> dumps(last.arg), expires |-> now + ttl_seconds]

\* a set whose Redis write failed over an older entry: memory new, Redis old
C6_Witness ==
    /\ enabled /\ last.op = "set" /\ last.contact = "error"
    /\ last.key \in DOMAIN redis
    /\ redis[last.key].data # dumps(last.arg)
    /\ lru_value(memory_cache, last.key) = last.arg

\* the cached key whose most recent access is the oldest
Oldest(c, r) ==
    r[CHOOSE i \in 1..Len(r) :
          /\ r[i] \in lru_keys(c)
          /\ \A j \in 1..(i - 1) : r[j] \notin lru_keys(c)]

\* C7: inserting a new key into a full memory cache evicts exactly one entry,
\* the one whose most recent access (get hit, promotion or set) is the oldest;
\* below capacity nothing is evicted; a key that a get has just hit is not the
\* one the next insertion evicts.
C7_Step ==
    LET inserted == lru_keys(memory_cache') \ lru_keys(memory_cache)
        evicted == lru_keys(memory_cache) \ lru_keys(memory_cache')
    IN  inserted # {} =>
            /\ Cardinality(inserted) = 1
            /\ Len(memory_cache) >= maxsize => evicted = {Oldest(memory_cache, recency)}
            /\ Len(memory_cache) < maxsize => evicted = {}
            /\ (last.op = "get" /\ last.ret # None /\ maxsize >= 2) =>
                  last.key \in lru_keys(memory_cache')

\* C7, over every step: an insertion into a full memory cache evicts exactly
\* the least recently used entry, never the key a get has just hit.
C7_EvictsLeastRecentlyUsed == [][C7_Step]_vars

\* a memory hit on one key, then an insertion that evicts another key
C7_Witness ==
    /\ maxsize >= 2
    /\ prev.op = "get" /\ prev.tier = "memory"
    /\ last.op \in {"get", "set"} /\ last.key # prev.key
    /\ last.evicted # {}
    /\ prev.key \in lru_keys(memory_cache)

-----------------------------------------------------------------------------
(* Properties of GoogleSearchClient.search *)

Finished == pc \in {"done", "failed"}

\* C8: a search whose upstream fails transiently max_retries - 1 times and then
\* succeeds returns that result after exactly max_retries upstream requests.
C8_SucceedsOnLastAttempt ==
    (/\ Finished
     /\ \A i \in 1..(max_retries - 1) : script[i] \in Transient
     /\ script[max_retries] = "ok")
        => /\ pc = "done"
           /\ calls = max_retries
           /\ outcome = [kind |-> "return", value |-> <<"result", max_retries>>,
                         wrapped |-> FALSE]

C8_Witness ==
    /\ pc = "done" /\ calls = max_retries
    /\ \A i \in 1..(max_retries - 1) : script[i] \in Transient
    /\ Len(sleeps) = max_retries - 1

\* C9: a search whose every attempt fails with a retryable error makes exactly
\* max_retries upstream requests, never more, and then raises the error of the
\* last attempt itself.
C9_ExhaustedRetriesRaiseLastError ==
    (pc # "idle" /\ \A i \in 1..max_retries : script[i] \in Transient)
        => /\ calls <= max_retries
           /\ Finished =>
                 /\ pc = "failed"
                 /\ calls = max_retries
                 /\ outcome = [kind |-> "raise",
                               value |-> <<script[max_retries], max_retries>>,
                               wrapped |-> FALSE]

\* three different failures in a row: the third one is raised
C9_Witness ==
    /\ pc = "failed" /\ calls = max_retries
    /\ \A i \in 1..max_retries : script[i] \in Transient
    /\ script[max_retries] # script[1]
    /\ outcome.value = <<script[max_retries], max_retries>>

\* C10: a non-retryable upstream failure ends the search after that single
\* attempt: no backoff sleep and no further request follows it.
C10_FatalFailsImmediately ==
    (pc # "idle" /\ calls >= 1 /\ script[1] \in Fatal)
        => (pc = "failed" /\ calls = 1 /\ sleeps = << >>)

Clamp(x, lo, hi) == IF x < lo THEN lo ELSE IF x > hi THEN hi ELSE x

RECURSIVE Doubled(_)
Doubled(k) == IF k = 0 THEN 1 ELSE 2 * Doubled(k - 1)

\* multiplier * 2^(n-1), clamped into [wait_min, wait_max]
ExpectedDelay(n) == Clamp(wait_multiplier * Doubled(n - 1), wait_min, wait_max)

\* C11: backoff sleeps occur only between consecutive attempts (none before the
\* first, none after the last, a - 1 sleeps for a attempts); the delay after the
\* n-th failed attempt is multiplier * 2^(n-1) clamped into [4 s, 60 s] and is
\* non-decreasing in n.
C11_BackoffBetweenAttempts ==
    /\ pc = "idle" => sleeps = << >>
    /\ pc = "attempting" => Len(sleeps) = calls
    /\ pc = "sleeping" => Len(sleeps) = calls - 1
    /\ Finished => Len(sleeps) = calls - 1
    /\ \A n \in 1..Len(sleeps) : sleeps[n] = ExpectedDelay(n)
    /\ \A n \in 1..MaxAttemptNumber :
          /\ wait_exponential(n) = ExpectedDelay(n)
          /\ wait_exponential(n) <= wait_exponential(n + 1)
          /\ wait_min <= wait_exponential(n) /\ wait_exponential(n) <= wait_max

\* three attempts, two sleeps of the floor delay, and the ceiling is reached
\* within the attempt numbers covered
C11_Witness ==
    /\ pc = "failed" /\ calls = max_retries
    /\ sleeps = <<wait_min, wait_min>>
    /\ \E n \in 1..MaxAttemptNumber : wait_exponential(n) = wait_max
    /\ \E n \in 1..MaxAttemptNumber :
          wait_min < wait_exponential(n) /\ wait_exponential(n) < wait_max

RECURSIVE SumSeq(_)
SumSeq(q) == IF q = << >> THEN 0 ELSE Head(q) + SumSeq(Tail(q))

\* C12: when every upstream request returns or fails in finite time, every
\* search call reaches done or failed; it makes at most max_retries requests
\* and sleeps at most (max_retries - 1) * wait_max seconds in total, whatever
\* the upstream answers.
C12_SearchTerminates ==
    /\ [](calls <= max_retries /\ SumSeq(sleeps) <= (max_retries - 1) * wait_max)
    /\ (pc \in {"attempting", "sleeping"}) ~> Finished

\* a call that used its whole retry budget and ended
C12_Witness ==
    /\ Finished /\ calls = max_retries
    /\ SumSeq(sleeps) = (max_retries - 1) * wait_min
    /\ script[max_retries] \in Fatal

-----------------------------------------------------------------------------
(* Properties of SearchCache._generate_key *)

\* C16: the key _generate_key produces for a query and a parameter mapping is the same
\* for every insertion order of the parameters
C16_KeyIgnoresInsertionOrder ==
    (eval.fn = "_generate_key" /\ eval.done) =>
        \A params \in InsertionOrders(eval.params) :
            generate_key(eval.key_query, params) = eval.value

C16_Witness ==
    /\ eval.fn = "_generate_key" /\ eval.done
    /\ Len(eval.params) = 3
    /\ eval.params # sorted(eval.params)
    /\ eval.value = generate_key(eval.key_query, sorted(eval.params))

\* C17: two (query, parameters) pairs that differ in the query or in a parameter name or
\* value are digested from different strings, also when a query or a value contains
\* '|' or ':' and when two values of different types have the same string form
C17_DistinctInputsDistinctDigest ==
    (eval.fn = "_generate_key" /\ eval.done) =>
        \A i \in KeyInputs :
            (i.query # eval.key_query \/ Mapping(i.params) # Mapping(eval.params))
                => key_string(i.query, i.params) # eval.digested

-----------------------------------------------------------------------------
(* Properties of SearchResultProcessor._calculate_relevance_score *)

IsScore == eval.fn = "_calculate_relevance_score" /\ eval.done

\* C19: the score lies in [0, 1] (0..score_cap in units of 0.05); the three capped
\* contributions never add up to more than 1.0, so the score is their sum, unclamped
C19_ScoreInUnitInterval ==
    IsScore =>
        LET added == contributions(eval.item, eval.query) IN
        /\ eval.value \in 0..score_cap
        /\ added[1] \in 0..title_cap /\ added[2] \in 0..snippet_cap /\ added[3] \in 0..domain_cap
        /\ added[1] + added[2] + added[3] <= score_cap
        /\ eval.value = added[1] + added[2] + added[3]

\* every cap is exceeded before it is applied, and the score is 1.0
C19_Witness ==
    /\ IsScore
    /\ eval.value = score_cap
    /\ LET query_terms == query_terms_of(eval.query) IN
       /\ title_score(query_terms, lower(item_get(eval.item, "title", << >>))) > title_cap
       /\ snippet_score(query_terms, lower(item_get(eval.item, "snippet", << >>))) > snippet_cap
       /\ domain_score(query_terms, lower(item_get(eval.item, "link", << >>)),
                       lower(item_get(eval.item, "displayLink", << >>))) > domain_cap

\* how many of the terms, counted with multiplicity, satisfy a condition on the text
Count(query_terms, text, Test(_, _)) ==
    Cardinality({k \in 1..Len(query_terms) : Test(text, query_terms[k])})

IsIn(text, term) == contains(text, term)
IsEqual(text, term) == text = term

\* C20: score = min(0.5, T) + min(0.3, S) + min(0.2, D); over the lowercase word tokens
\* of the query, T is 0.2 per token in the lowercased title plus 0.3 per token equal to
\* it, S is 0.1 per token in the snippet, D is 0.1 per token in the display domain plus
\* 0.05 per token in the link
C20_ScoreFormula ==
    IsScore =>
        LET query_terms == query_terms_of(eval.query)
            title == lower(item_get(eval.item, "title", << >>))
            snippet == lower(item_get(eval.item, "snippet", << >>))
            link == lower(item_get(eval.item, "link", << >>))
            display_link == lower(item_get(eval.item, "displayLink", << >>))
            T == title_hit * Count(query_terms, title, IsIn)
                 + title_exact * Count(query_terms, title, IsEqual)
            S == snippet_hit * Count(query_terms, snippet, IsIn)
            D == display_link_hit * Count(query_terms, display_link, IsIn)
                 + link_hit * Count(query_terms, link, IsIn)
        IN  eval.value = Min(title_cap, T) + Min(snippet_cap, S) + Min(domain_cap, D)

\* the title is the only term of the query, and no cap is reached but the title's
C20_Witness ==
    /\ IsScore
    /\ query_terms_of(eval.query) = <<lower(item_get(eval.item, "title", << >>))>>
    /\ "link" \in DOMAIN eval.item
    /\ eval.value = title_hit + title_exact + link_hit

-----------------------------------------------------------------------------
(* Properties of process_query over the cached, retrying search *)

Served == ProcessQueryCalls[request]

KeyOf(r) == cache_key(r.query, search_kwargs(r))

\* C13: when the upstream search finally fails, the failure reaches the caller of
\* process_query and both cache tiers hold what they held when the request arrived
C13_FailureLeavesCacheUntouched ==
    ppc = "raised" =>
        /\ outcome.kind = "raise"
        /\ raw = None
        /\ Tiers(memory_cache, redis) = before

\* C14: when the cache has an entry for the key of the request, the request is answered
\* from that entry and no upstream attempt is made
C14_CachedEntryAnswersRequest ==
    (ppc # "idle" /\ found # None) =>
        /\ from_cache
        /\ raw = found
        /\ pc = "idle" /\ calls = 0

\* C15: after a request missed the cache and its upstream call succeeded, the identical
\* request issued next (caching enabled) is a cache hit and makes no upstream call,
\* whatever the payload, an empty one included
C15_StoredResultHitsNext ==
    (ppc # "idle" /\ enabled /\ prior = request) =>
        /\ from_cache
        /\ pc = "idle" /\ calls = 0

\* settings.google_search.result_language, settings.google_search.safe_search
result_language == StrValue("en")
safe_search == StrValue("off")

\* the parameters a call of process_query works with, defaults applied
effective_params(r) ==
    << r.num_results,
       IF r.language \in {NoneValue, NotPassed} THEN result_language ELSE r.language,
       IF r.safe_search \in {NoneValue, NotPassed} THEN safe_search ELSE r.safe_search,
       r.min_relevance_score, r.filter_domains, r.exclude_domains >>

\* the arguments of process_query that reach search
passed_params(r) == <<r.num_results, r.language, r.safe_search>>

\* C18 as stated: two calls with the same query use the same cache entry exactly when
\* their effective parameters (num_results, language, safe_search, min_relevance_score,
\* filter_domains, exclude_domains) are equal
C18_KeyFromEffectiveParameters ==
    ppc # "idle" =>
        /\ \A n \in DOMAIN ProcessQueryCalls :
              ProcessQueryCalls[n].query = Served.query =>
                  (effective_params(ProcessQueryCalls[n]) = effective_params(Served)
                      <=> KeyOf(ProcessQueryCalls[n]) = KeyOf(Served))
        /\ from_cache =>
              effective_params(ProcessQueryCalls[writer[KeyOf(Served)]]) = effective_params(Served)

\* C18, amended: the key is derived from the query and the arguments passed on to search
\* (num_results, language, safe_search, as passed): two calls that agree on them use the
\* same entry whatever their min_relevance_score, filter_domains and exclude_domains, and
\* a request answered from the cache reads an entry stored for the string it digests itself
C18_KeyFromSearchArguments ==
    ppc # "idle" =>
        /\ \A n \in DOMAIN ProcessQueryCalls :
              (ProcessQueryCalls[n].query = Served.query
               /\ passed_params(ProcessQueryCalls[n]) = passed_params(Served))
                  => KeyOf(ProcessQueryCalls[n]) = KeyOf(Served)
        /\ from_cache =>
              /\ writer[KeyOf(Served)] # 0
              /\ LET w == ProcessQueryCalls[writer[KeyOf(Served)]] IN
                 key_string(w.query, search_kwargs(w)) = key_string(Served.query, search_kwargs(Served))

\* a request is answered from the entry a call with another relevance threshold stored
C18_Witness ==
    /\ ppc = "returned" /\ from_cache
    /\ writer[KeyOf(Served)] \notin {0, request}
    /\ ProcessQueryCalls[writer[KeyOf(Served)]].min_relevance_score # Served.min_relevance_score
    /\ effective_params(ProcessQueryCalls[writer[KeyOf(Served)]]) # effective_params(Served)

\* C21 as stated: for the worked example the title contribution is 0.4, the snippet
\* contribution 0.2, and the score lies strictly between 0.5 and 0.7
C21_ExampleScoreBelowSevenTenths ==
    (IsScore /\ eval.item = ExampleItem /\ eval.query = ExampleQuery) =>
        /\ contributions(eval.item, eval.query)[1] = 2 * title_hit
        /\ contributions(eval.item, eval.query)[2] = 2 * snippet_hit
        /\ 2 * eval.value > score_cap
        /\ 10 * eval.value < 7 * score_cap

\* C21, amended: for the worked example the title contribution is 0.4, the snippet
\* contribution 0.2, the link adds 0.05 for each of the two tokens, and the score is 0.7
C21_ExampleScoreIsSevenTenths ==
    (IsScore /\ eval.item = ExampleItem /\ eval.query = ExampleQuery) =>
        /\ query_terms_of(eval.query) = << <<"o", "i", "l">>, <<"s", "p", "i", "l", "l">> >>
        /\ contributions(eval.item, eval.query) = <<2 * title_hit, 2 * snippet_hit, 2 * link_hit>>
        /\ eval.value = 2 * title_hit + 2 * snippet_hit + 2 * link_hit
        /\ 10 * eval.value = 7 * score_cap

C21_Witness ==
    /\ IsScore /\ eval.item = ExampleItem /\ eval.query = ExampleQuery
    /\ contributions(eval.item, eval.query)[3] = 2 * link_hit

-----------------------------------------------------------------------------
(* Properties of SearchResultProcessor._process_raw_results *)

IsProcessed == eval.fn = "_process_raw_results" /\ eval.done

\* the items of the upstream payload
Upstream == IF "items" \in DOMAIN eval.raw_results THEN eval.raw_results.items ELSE << >>

\* the item at position i of the payload meets the filters of the request; allow_list:
\* whether the request has an allow-list
Passes(i, allow_list) ==
    LET display_link == item_get(Upstream[i], "displayLink", << >>) IN
    /\ ~float_less(relevance_score(Upstream[i], eval.query),
                   DecimalFloat[eval.min_relevance_score + 1])
    /\ allow_list =>
          \E d \in Range(eval.filter_domains.domains) : contains(display_link, d)
    /\ eval.exclude_domains.given =>
          \A d \in Range(eval.exclude_domains.domains) : ~contains(display_link, d)

\* the response holds items of the payload only, each at most once, and those at the
\* positions in kept
ResponseIs(kept) ==
    /\ \A k \in 1..Len(eval.value) :
          /\ eval.value[k].position \in 1..Len(Upstream)
          /\ eval.value[k] = process_item(Upstream[eval.value[k].position],
                                          relevance_score(Upstream[eval.value[k].position],
                                                          eval.query),
                                          eval.value[k].position)
    /\ \A k1, k2 \in 1..Len(eval.value) :
          eval.value[k1].position = eval.value[k2].position => k1 = k2
    /\ {eval.value[k].position : k \in 1..Len(eval.value)} = kept

\* scores [0.9, 0.4, 0.7] with minimum 0.5 and no list yield two items
ExampleYieldsTwo ==
    (/\ Upstream = <<ItemA, ItemB, ItemC>>
     /\ eval.min_relevance_score = 10
     /\ ~eval.filter_domains.given /\ ~eval.exclude_domains.given)
        => Len(eval.value) = 2

\* C22: the items of a response are exactly the upstream items, each at most once and
\* none invented, whose score is at least min_relevance_score, whose display domain
\* contains an entry of the allow-list when one is given and no entry of the deny-list
\* when one is given; scores [0.9, 0.4, 0.7] with minimum 0.5 yield two items
C22_ResponseIsFilteredUpstream ==
    IsProcessed =>
        /\ ResponseIs({i \in 1..Len(Upstream) : Passes(i, eval.filter_domains.given)})
        /\ ExampleYieldsTwo

\* C22, amended: as above, where the allow-list restricts the items only when it is a
\* non-empty list; None and an empty list both leave the display domain unrestricted
C22_ResponseIsFilteredByNonEmptyLists ==
    IsProcessed =>
        /\ ResponseIs({i \in 1..Len(Upstream) :
                          Passes(i, eval.filter_domains.given
                                    /\ eval.filter_domains.domains # << >>)})
        /\ ExampleYieldsTwo

\* each of the three filters has dropped an item of the payload, and one is left
C22_Witness ==
    /\ IsProcessed
    /\ eval.filter_domains.given /\ eval.filter_domains.domains # << >>
    /\ eval.exclude_domains.given /\ eval.exclude_domains.domains # << >>
    /\ Len(eval.value) > 0
    /\ \E i \in 1..Len(Upstream) :
          float_less(relevance_score(Upstream[i], eval.query),
                     DecimalFloat[eval.min_relevance_score + 1])
    /\ \E i \in 1..Len(Upstream) :
          /\ ~float_less(relevance_score(Upstream[i], eval.query),
                         DecimalFloat[eval.min_relevance_score + 1])
          /\ \A d \in Range(eval.filter_domains.domains) :
                ~contains(item_get(Upstream[i], "displayLink", << >>), d)
    /\ \E i \in 1..Len(Upstream) :
          /\ ~float_less(relevance_score(Upstream[i], eval.query),
                         DecimalFloat[eval.min_relevance_score + 1])
          /\ \E d \in Range(eval.exclude_domains.domains) :
                contains(item_get(Upstream[i], "displayLink", << >>), d)

\* C23: the items of a response are in non-increasing order of score, and items of
\* equal score stand in the order they had in the upstream payload
C23_SortedByScoreStable ==
    IsProcessed =>
        \A k \in 1..(Len(eval.value) - 1) :
            /\ ~float_less(eval.value[k].relevanceScore, eval.value[k + 1].relevanceScore)
            /\ eval.value[k].relevanceScore = eval.value[k + 1].relevanceScore
                  => eval.value[k].position < eval.value[k + 1].position

\* a response with two items of equal score and an item that moved ahead of earlier ones
C23_Witness ==
    /\ IsProcessed
    /\ \E k \in 1..(Len(eval.value) - 1) :
          eval.value[k].relevanceScore = eval.value[k + 1].relevanceScore
    /\ \E k \in 1..(Len(eval.value) - 1) :
          eval.value[k].position > eval.value[k + 1].position

\* C24: a search request whose num_results lies outside 1..50 is answered with a
\* validation error and never served: the request being served has num_results within
\* 1..50, and the step that rejects a request leaves both cache tiers, the cache
\* bookkeeping and the upstream call count as they were
C24_OutOfRangeRejectedUntouched ==
    /\ [](ppc # "idle" =>
            Served.num_results \in
                {IntValue(decimal(k)) : k \in num_results_ge..num_results_le})
    /\ [][status' = 422 =>
            /\ \E h \in DOMAIN SearchRequests :
                  SearchRequests[h].num_results \notin num_results_ge..num_results_le
            /\ ppc = "idle" /\ ppc' = "idle"
            /\ UNCHANGED <<cacheVars, clientVars>>]_vars

\* a request was rejected while both tiers held an entry
C24_Witness ==
    /\ status = 422
    /\ ppc = "idle"
    /\ memory_cache # << >>
    /\ DOMAIN redis # {}

\* C25: whenever get returns a payload with a Redis tier configured, the set that wrote
\* the payload ran no more than ttl_seconds earlier
C25_Step ==
    (/\ last'.op = "get"
     /\ last'.ret # None
     /\ redis_client
     /\ now' = now
     /\ <<last', prev', memory_cache'>> # <<last, prev, memory_cache>>)
        => now - written'[last'.key] <= ttl_seconds

C25_ServedWithinTtl == [][C25_Step]_vars

\* the two threads have completed cached searches of one key that both missed before
\* either stored its result, and the search function returned to both
DuplicateMiss ==
    /\ \A t \in Threads :
          /\ threads[t].op = "search" /\ threads[t].pc = "done"
          /\ threads[t].raced /\ threads[t].called
    /\ threads[1].key = threads[2].key

\* C26: two concurrent requests for one key that both miss before either stores can both
\* call upstream; both then return the result of their own call, and the cache
\* afterwards holds, for the key, the result of one of the two calls
C26_DuplicateMissesBothComplete ==
    DuplicateMiss =>
        /\ \A t \in Threads : ~threads[t].raised /\ threads[t].ret = threads[t].arg
        /\ enabled =>
              /\ lru_contains(memory_cache, threads[1].key)
              /\ lru_value(memory_cache, threads[1].key) \in {threads[1].arg, threads[2].arg}

\* both called upstream and got different results; Redis holds the result of the thread
\* that wrote the memory tier first
C26_Witness ==
    /\ DuplicateMiss
    /\ enabled /\ redis_client
    /\ threads[1].arg # threads[2].arg
    /\ threads[1].key \in DOMAIN redis
    /\ loads(redis[threads[1].key].data) # lru_value(memory_cache, threads[1].key)

\* C27: after two overlapping sets of a key have both completed and until the next write
\* to the key, every get of the key that returns a payload returns the same payload
C27_OverlappingSetsLastWriteWins ==
    race.settled => Cardinality(race.seen) <= 1

\* the payloads that the sets of a key store
StoredUnder(key) == {c.value : c \in {d \in ClearCalls : d.op = "set" /\ d.key = key}}

\* C28: a get or set that ran concurrently with a clear, and a clear that ran
\* concurrently with one of them, does not raise, and the get returns None or a payload
\* that a set stored under its key
C28_ClearNeverCorrupts ==
    \A t \in Threads :
        (threads[t].pc = "done" /\ threads[t].mixed) =>
            /\ ~threads[t].raised
            /\ threads[t].op = "get" => threads[t].ret \in StoredUnder(threads[t].key) \cup {None}

\* C29: once the overall timeout of the caller has expired, the pending search starts no
\* further upstream attempt and no further backoff sleep (the attempt or the sleep in
\* progress may end), and it ends as failed
C29_TimeoutStopsRetries ==
    /\ cancelled.at = "attempting" =>
          calls <= cancelled.calls + 1 /\ Len(sleeps) = cancelled.sleeps
    /\ cancelled.at = "sleeping" =>
          calls = cancelled.calls /\ Len(sleeps) <= cancelled.sleeps + 1
    /\ cancelled.at # "none" => pc # "done"

\* the keys under which the searches for a query store their results
KeysOfQuery(query) ==
    {KeyOf(ProcessQueryCalls[n]) :
        n \in {m \in DOMAIN ProcessQueryCalls : ProcessQueryCalls[m].query = query}}

\* the step of the cache-clear endpoint: the only step that answers 200 without a search
ClearCacheStep == ppc = "idle" /\ ppc' = "idle" /\ status' = 200

\* C30: after the cache-clear endpoint has run with the query (or with none), neither
\* tier holds an entry that a search for the query stored, under whatever num_results,
\* language and safe_search
C30_ClearRemovesEntriesOfQuery ==
    [][(ClearCacheStep /\ enabled) =>
          \A key \in KeysOfQuery("oil") :
              /\ ~lru_contains(memory_cache', key)
              /\ ~truthy(redis_get(redis', key, now))]_vars

-----------------------------------------------------------------------------
\* C31: after any sequence of set, get (with promotion from Redis) and clear the memory
\* cache holds at most max_cache_size entries, and a set of a key that is already in a
\* full memory cache evicts nothing
C31_SetOfPresentKey ==
    (last'.op = "set" /\ lru_contains(memory_cache, last'.key))
        => /\ lru_keys(memory_cache') = lru_keys(memory_cache)
           /\ last'.evicted = {}

C31_MemoryCacheBounded ==
    /\ [](Len(memory_cache) <= maxsize /\ Cardinality(lru_keys(memory_cache)) = Len(memory_cache))
    /\ [][C31_SetOfPresentKey]_vars

\* a full memory cache of two keys right after a key it held was set again
C31_Witness ==
    /\ enabled
    /\ maxsize = MaxCapacity
    /\ Len(memory_cache) = maxsize
    /\ last.op = "set"
    /\ prev.op = "set"
    /\ prev.key = last.key

-----------------------------------------------------------------------------
\* C32: tier agreement: after any sequence of set, get and clear of one process, Redis
\* failures included, a key held by both the memory cache and Redis has the same payload
\* in both
C32_TiersAgree ==
    \A key \in Keys :
        (lru_contains(memory_cache, key) /\ truthy(redis_get(redis, key, now)))
            => lru_value(memory_cache, key) = loads(redis_get(redis, key, now))

-----------------------------------------------------------------------------
\* C33: two processes share a reachable Redis; after a set(k, v) of one process has
\* completed, a get(k) of the other process that finds no entry for k in its own memory
\* cache returns v and leaves v in that memory cache, as long as the Redis entry has not
\* expired and k has not been cleared
C33_Step ==
    LET key == last'.key IN
    (/\ last'.op = "get" /\ peer' = peer /\ now' = now
     /\ enabled /\ redis_client
     /\ key \in DOMAIN fresh
     /\ fresh[key].by # Running
     /\ now < fresh[key].expires
     /\ ~lru_contains(memory_cache, key))
        => /\ last'.ret = fresh[key].value
           /\ lru_contains(memory_cache', key)
           /\ lru_value(memory_cache', key) = fresh[key].value

C33_OtherInstanceReadsThrough == [][C33_Step]_vars

\* the running process has just read from Redis what the other process had set, while
\* the other process still holds it in its own memory cache
C33_Witness ==
    /\ last.op = "get" /\ last.contact = "ok" /\ last.ret = "r1"
    /\ last.key \in DOMAIN fresh
    /\ fresh[last.key].by = peer.name
    /\ lru_contains(peer.memory_cache, last.key)
    /\ lru_contains(memory_cache, last.key)
    /\ lru_value(memory_cache, last.key) = "r1"

-----------------------------------------------------------------------------
\* C34: in a process whose cache is disabled get returns absent and set and clear change
\* neither tier, so every process_query call of that process runs the upstream search, and
\* the entries the tiers held before (written to Redis by a process that caches) stay as
\* they were
C34_Step ==
    (~enabled /\ peer' = peer)
        => /\ memory_cache' = memory_cache
           /\ redis' = redis
           /\ (ppc = "idle" /\ ppc' # "idle") => (found' = None /\ ppc' = "searching")

C34_DisabledCacheIsInert ==
    /\ []((~enabled /\ ppc = "returned")
            => (~from_cache /\ calls >= 1 /\ outcome.kind = "return"))
    /\ [][C34_Step]_vars

\* the process that does not cache has searched upstream for a request whose entry the
\* other process had stored in Redis
C34_Witness ==
    /\ ~enabled
    /\ ppc = "returned"
    /\ request \in DOMAIN ProcessQueryCalls
    /\ cache_key(ProcessQueryCalls[request].query, search_kwargs(ProcessQueryCalls[request]))
           \in DOMAIN redis
    /\ calls >= 1

-----------------------------------------------------------------------------
\* the entries of every key but `key` are the same before and after the step
OtherEntriesUnchanged(key) ==
    /\ lru_delitem(memory_cache', key) = lru_delitem(memory_cache, key)
    /\ redis_delete(redis', key) = redis_delete(redis, key)

\* C35: clear(k) removes at most the entry of k and leaves the entries of every other key
\* unchanged in both tiers; get(k) never writes to Redis, and a get that misses both tiers
\* leaves both tiers unchanged
C35_Step ==
    /\ (last'.op = "clear" /\ last'.key # None)
          => /\ OtherEntriesUnchanged(last'.key)
             /\ lru_keys(memory_cache') \subseteq lru_keys(memory_cache)
             /\ DOMAIN redis' \subseteq DOMAIN redis
    /\ last'.op = "get" => redis' = redis
    /\ (last'.op = "get" /\ last'.ret = None)
          => (memory_cache' = memory_cache /\ redis' = redis)

C35_KeyedOperationsFrame == [][C35_Step]_vars

\* clear(k) has removed the entry a set(k, v) had written to both tiers, and both tiers
\* still hold the entry of another key
C35_Witness ==
    /\ enabled
    /\ last.op = "clear" /\ last.key # None /\ last.contact = "ok"
    /\ prev.op = "set" /\ prev.key = last.key
    /\ \E key \in Keys \ {last.key} : lru_contains(memory_cache, key) /\ key \in DOMAIN redis
    /\ ~lru_contains(memory_cache, last.key)
    /\ last.key \notin DOMAIN redis

-----------------------------------------------------------------------------
\* the score of each item of a payload for a query, computed once
UpstreamScores ==
    [result \in Payloads |->
        LET upstream == raw_results_of(result) IN
        IF "items" \in DOMAIN upstream
        THEN [k \in 1..Len(upstream.items) |->
                 relevance_score(upstream.items[k], characters("oil"))]
        ELSE << >>]

\* the k-th item of the cached payload satisfies the filters of call r
Satisfies(r, result, k) ==
    LET display_link == item_get(raw_results_of(result).items[k], "displayLink", << >>) IN
    /\ ~float_less(UpstreamScores[result][k], minimum_float(r.min_relevance_score))
    /\ list_truthy(r.filter_domains) =>
          \E d \in Range(r.filter_domains.domains) : contains(display_link, d)
    /\ list_truthy(r.exclude_domains) =>
          \A d \in Range(r.exclude_domains.domains) : ~contains(display_link, d)

\* C36: a process_query call answered from a cached entry returns exactly the items of
\* the cached payload that satisfy its own min_relevance_score, filter_domains and
\* exclude_domains, in descending order of score: the response the miss path builds from
\* that payload, whatever the filters of the request that stored the entry
C36_HitsFilteredLikeMisses ==
    (ppc = "returned" /\ from_cache) =>
        LET r == ProcessQueryCalls[request]
            items == body.items
        IN  /\ body.kind = "results"
            /\ r.query = "oil"
            /\ {items[i].position : i \in 1..Len(items)}
                  = {k \in DOMAIN UpstreamScores[raw] : Satisfies(r, raw, k)}
            /\ \A i \in 1..Len(items) :
                  items[i].relevanceScore = UpstreamScores[raw][items[i].position]
            /\ \A i, j \in 1..Len(items) :
                  i < j => ~float_less(items[i].relevanceScore, items[j].relevanceScore)
            /\ \A i, j \in 1..Len(items) : items[i].position = items[j].position => i = j
            /\ items = processed_results(request, raw)

\* the call with min_relevance_score 0.3, an allow-list and a deny-list is answered from
\* the entry the call without filters stored: some items of the payload are returned, not all
C36_Witness ==
    /\ ppc = "returned" /\ from_cache
    /\ request = 2
    /\ writer[cache_key(ProcessQueryCalls[2].query, search_kwargs(ProcessQueryCalls[2]))] = 1
    /\ raw = "r1"
    /\ Len(body.items) >= 2
    /\ Len(body.items) < Len(raw_results_of(raw).items)
    /\ body.items # processed_results(1, raw)

-----------------------------------------------------------------------------
\* C37: the cache-clear endpoint answers 'All cache cleared' only when the whole cache
\* was cleared, also for a request whose query is the empty string: after such an answer
\* of a process that caches, with Redis reachable, neither tier holds an entry
C37_Step ==
    (/\ ppc = "idle" /\ ppc' = "idle"
     /\ peer' = peer
     /\ enabled
     /\ status' = 200
     /\ body'.kind = "message"
     /\ body'.message = <<"All cache cleared">>)
        => /\ memory_cache' = << >>
           /\ DOMAIN redis' = {}

C37_AllClearedMeansAllCleared == [][C37_Step]_vars

-----------------------------------------------------------------------------
\* C38: an item whose title is empty or missing gets a title contribution of 0 for every
\* query, never the exact-match bonus: the query terms are non-empty runs of word
\* characters, and no non-empty term is in the empty title or equal to it
C38_EmptyTitleNeverMatches ==
    (/\ eval.fn = "_calculate_relevance_score" /\ eval.done
     /\ item_get(eval.item, "title", << >>) = << >>)
        => LET query_terms == query_terms_of(eval.query)
               added == contributions(eval.item, eval.query)
           IN  /\ \A i \in 1..Len(query_terms) :
                     /\ query_terms[i] # << >>
                     /\ \A k \in 1..Len(query_terms[i]) : word_char(query_terms[i][k])
                     /\ exact_bonus(query_terms[i], << >>) = 0
               /\ title_score(query_terms, << >>) = 0
               /\ added[1] = 0
               /\ eval.value = Min(score_cap, added[2] + added[3])

\* an item with the title "" was scored for a query with terms, and its snippet matched
C38_Witness ==
    /\ eval.fn = "_calculate_relevance_score" /\ eval.done
    /\ "title" \in DOMAIN eval.item
    /\ eval.item.title = << >>
    /\ Len(query_terms_of(eval.query)) >= 2
    /\ eval.value > 0

====
